---- MODULE Spec2Model ----
(***************************************************************************)
(* Conversation metadata index of yai (package storage): an in-memory map  *)
(* of Conversation records made durable by the append-only event log       *)
(* index.jsonl, with compaction.  Go strings are modelled as what they are, *)
(* sequences of bytes; timestamps are integers (instants).                  *)
(***************************************************************************)
EXTENDS Integers, Sequences, FiniteSets, Bags, TLC

(***************************************************************************)
(* Bounds of the model.                                                    *)
(***************************************************************************)
\* operations performed on a handle after it was opened
MaxSteps == 2
\* distinct readings of the wall clock (time.Now) handed to Save
MaxTime == 2
\* maps of at most this many records are iterated in every possible order
MaxPermute == 2
\* calls made on the payload cache
MaxCacheSteps == 3

(***************************************************************************)
(* Program constants.                                                      *)
(***************************************************************************)
compactMinOps == 256
compactScaleFactor == 4
SHA1MinLen == 4
SHA1Short == 7
shardPrefixLen == 2

(***************************************************************************)
(* Go strings: byte sequences.                                             *)
(***************************************************************************)
\* unicode.IsSpace restricted to the one-byte white space of ASCII
IsSpace(b) == b \in {9, 10, 11, 12, 13, 32}

RECURSIVE TrimLeft(_)
TrimLeft(s) ==
    IF s = <<>> THEN s
    ELSE IF IsSpace(Head(s)) THEN TrimLeft(Tail(s)) ELSE s

RECURSIVE TrimRight(_)
TrimRight(s) ==
    IF s = <<>> THEN s
    ELSE IF IsSpace(s[Len(s)]) THEN TrimRight(SubSeq(s, 1, Len(s) - 1)) ELSE s

\* strings.TrimSpace
\* a Save that tests id and title untrimmed
TrimSpaceNone(s) == s

TrimSpace(s) == TrimRight(TrimLeft(s))

\* strings.HasPrefix(s, prefix): a comparison of bytes
HasPrefix(s, prefix) ==
    /\ Len(s) >= Len(prefix)
    /\ SubSeq(s, 1, Len(prefix)) = prefix

\* the < of Go strings: lexicographic on bytes
RECURSIVE StrLess(_, _)
StrLess(a, b) ==
    IF b = <<>> THEN FALSE
    ELSE IF a = <<>> THEN TRUE
    ELSE IF Head(a) # Head(b) THEN Head(a) < Head(b)
    ELSE StrLess(Tail(a), Tail(b))

IsCont(b) == b >= 128 /\ b <= 191

\* Length in bytes of the UTF-8 encoding that starts s, 0 when s starts with
\* a byte that begins no valid encoding (unicode/utf8: first and acceptRanges).
RuneWidth(s) ==
    LET b == s[1] IN
    IF b < 128 THEN 1
    ELSE IF b >= 194 /\ b <= 223
        THEN IF Len(s) >= 2 /\ IsCont(s[2]) THEN 2 ELSE 0
    ELSE IF b >= 224 /\ b <= 239
        THEN IF /\ Len(s) >= 3
                /\ IsCont(s[2])
                /\ IsCont(s[3])
                /\ (b = 224 => s[2] >= 160)
                /\ (b = 237 => s[2] <= 159)
             THEN 3 ELSE 0
    ELSE IF b >= 240 /\ b <= 244
        THEN IF /\ Len(s) >= 4
                /\ IsCont(s[2])
                /\ IsCont(s[3])
                /\ IsCont(s[4])
                /\ (b = 240 => s[2] >= 144)
                /\ (b = 244 => s[2] <= 143)
             THEN 4 ELSE 0
    ELSE 0

\* utf8.RuneCountInString: an invalid byte counts as one rune
RECURSIVE RuneCount(_)
RuneCount(s) ==
    IF s = <<>> THEN 0
    ELSE LET w == RuneWidth(s) IN
         1 + RuneCount(SubSeq(s, (IF w = 0 THEN 1 ELSE w) + 1, Len(s)))

\* U+FFFD in UTF-8
ReplacementChar == <<239, 191, 189>>

\* encoding/json writes a Go string "coerced to valid UTF-8, replacing invalid
\* bytes with the Unicode replacement rune"; reading the JSON string back gives
\* the coerced string.  Escapes (<, \n, ...) are undone by the reader and
\* leave the value as it was.
RECURSIVE JSONString(_)
JSONString(s) ==
    IF s = <<>> THEN <<>>
    ELSE LET w == RuneWidth(s) IN
         IF w = 0 THEN ReplacementChar \o JSONString(Tail(s))
         ELSE SubSeq(s, 1, w) \o JSONString(SubSeq(s, w + 1, Len(s)))

(***************************************************************************)
(* Records, events and lines of index.jsonl.                               *)
(***************************************************************************)
\* Conversation{ID, Title, UpdatedAt, API, Model}; API and Model point to
\* copies of the arguments, so a record holds their values
NewConversation(id, title, now, api, model) ==
    [ID |-> id, Title |-> title, UpdatedAt |-> now, API |-> api, Model |-> model]

\* convoEvent{Op, ID, Conversation}; Conversation is a pointer: <<>> is nil,
\* <<c>> points to c
UpsertEvent(convo) == [Op |-> "upsert", ID |-> <<>>, Conversation |-> <<convo>>]

DeleteEvent(id) == [Op |-> "delete", ID |-> id, Conversation |-> <<>>]

\* json.Marshal of a Conversation: every string is written as a JSON string;
\* time.Time is written in RFC 3339 with nanoseconds, which keeps the instant
MarshalConversation(c) ==
    [ID |-> JSONString(c.ID),
     Title |-> JSONString(c.Title),
     UpdatedAt |-> c.UpdatedAt,
     API |-> JSONString(c.API),
     Model |-> JSONString(c.Model)]

\* json.Marshal(evt): the text of one line.  A line is represented by the
\* value its text denotes; kind tells a JSON object from a blank line and
\* from text that is no JSON value.
Marshal(evt) ==
    [kind |-> "json",
     evt |-> [Op |-> evt.Op,
              ID |-> JSONString(evt.ID),
              Conversation |-> IF evt.Conversation = <<>> THEN <<>>
                               ELSE <<MarshalConversation(evt.Conversation[1])>>]]

ZeroEvent == [Op |-> "", ID |-> <<>>, Conversation |-> <<>>]

\* the unterminated or run-together text a failed write leaves behind
GarbageLine == [kind |-> "garbage", evt |-> ZeroEvent]

BlankLine == [kind |-> "blank", evt |-> ZeroEvent]

\* json.Unmarshal(line, &evt)
Unmarshal(line) ==
    IF line.kind = "json" THEN [err |-> "nil", evt |-> line.evt]
    ELSE [err |-> "could not parse index event", evt |-> ZeroEvent]

(***************************************************************************)
(* The store.  A value d of the store is                                    *)
(*   d.conversations  the map id -> Conversation                            *)
(*   d.ops            the event counter                                     *)
(*   d.index          the lines of index.jsonl                              *)
(*   d.torn           TRUE when the last line of index.jsonl has no newline *)
(***************************************************************************)
EmptyMap == <<>>

\* c.conversations[id] = convo: the entry for id, and m elsewhere
\* a put that keeps the record already stored under id
MapPutKeep(m, id, convo) == m @@ (id :> convo)

MapPut(m, id, convo) == (id :> convo) @@ m

\* delete(c.conversations, id)
MapDelete(m, id) == [k \in (DOMAIN m) \ {id} |-> m[k]] @@ EmptyMap

\* an applyEvent that passes over an event it does not know
ApplyEventLenient(m, evt) ==
    IF evt.Op = "upsert" THEN
        IF evt.Conversation = <<>>
            THEN [err |-> "invalid upsert event: missing conversation", conversations |-> m]
        ELSE IF TrimSpace(evt.Conversation[1].ID) = <<>>
            THEN [err |-> "invalid upsert event: empty id", conversations |-> m]
        ELSE [err |-> "nil",
              conversations |->
                  MapPut(m, evt.Conversation[1].ID, evt.Conversation[1])]
    ELSE IF evt.Op = "delete" THEN
        IF TrimSpace(evt.ID) = <<>>
            THEN [err |-> "invalid delete event: empty id", conversations |-> m]
        ELSE [err |-> "nil", conversations |-> MapDelete(m, evt.ID)]
    ELSE [err |-> "nil", conversations |-> m]

\* DB.applyEvent on the map m
ApplyEvent(m, evt) ==
    IF evt.Op = "upsert" THEN
        IF evt.Conversation = <<>>
            THEN [err |-> "invalid upsert event: missing conversation", conversations |-> m]
        ELSE IF TrimSpace(evt.Conversation[1].ID) = <<>>
            THEN [err |-> "invalid upsert event: empty id", conversations |-> m]
        ELSE [err |-> "nil",
              conversations |->
                  MapPut(m, evt.Conversation[1].ID, evt.Conversation[1])]
    ELSE IF evt.Op = "delete" THEN
        IF TrimSpace(evt.ID) = <<>>
            THEN [err |-> "invalid delete event: empty id", conversations |-> m]
        ELSE [err |-> "nil", conversations |-> MapDelete(m, evt.ID)]
    ELSE [err |-> "invalid index event op", conversations |-> m]

\* one turn of the scanner loop of DB.load on the line `line`; acc is the
\* error, the map and the counter so far
LoadLine(line, acc) ==
    IF line.kind = "blank" THEN acc
    ELSE LET u == Unmarshal(line) IN
         IF u.err # "nil" THEN [acc EXCEPT !.err = u.err]
         ELSE LET a == ApplyEvent(acc.conversations, u.evt) IN
              IF a.err # "nil" THEN [acc EXCEPT !.err = a.err]
              ELSE [err |-> "nil", conversations |-> a.conversations, ops |-> acc.ops + 1]

\* the scanner loop over lines lo..hi, in file order, stopping at the first
\* error (the range is halved to keep the evaluation shallow)
RECURSIVE LoadRange(_, _, _, _)
LoadRange(lines, lo, hi, acc) ==
    IF acc.err # "nil" \/ lo > hi THEN acc
    ELSE IF lo = hi THEN LoadLine(lines[lo], acc)
    ELSE LET mid == (lo + hi) \div 2 IN
         LoadRange(lines, mid + 1, hi, LoadRange(lines, lo, mid, acc))

\* DB.load on a fresh handle (empty map, counter 0); a missing file reads as
\* no lines
Load(lines) ==
    LoadRange(lines, 1, Len(lines), [err |-> "nil", conversations |-> EmptyMap, ops |-> 0])

(***************************************************************************)
(* Iteration over the map and sorting.                                     *)
(***************************************************************************)
RECURSIVE SetToSeq(_)
SetToSeq(S) ==
    IF S = {} THEN <<>>
    ELSE LET x == CHOOSE y \in S : TRUE IN <<x>> \o SetToSeq(S \ {x})

Reverse(s) == [i \in 1..Len(s) |-> s[Len(s) + 1 - i]] \o <<>>

\* The orders in which `for _, convo := range c.conversations` may visit the
\* keys: Go leaves the order open.  Every order for a map of at most
\* MaxPermute keys, two opposite orders for a larger one (named here, and
\* spelled out by Collect when the loop runs).
IterOrders(keys) ==
    IF Cardinality(keys) <= MaxPermute
        THEN {[kind |-> "seq", seq |-> o] :
                 o \in {p \in [1..Cardinality(keys) -> keys] :
                           \A i, j \in 1..Cardinality(keys) : i # j => p[i] # p[j]}}
    ELSE {[kind |-> "fwd", seq |-> <<>>], [kind |-> "rev", seq |-> <<>>]}

OrderOf(m, order) ==
    IF order.kind = "seq" THEN order.seq
    ELSE IF order.kind = "fwd" THEN SetToSeq(DOMAIN m)
    ELSE Reverse(SetToSeq(DOMAIN m))

\* the slice built by ranging over the map m in the order `order`
Collect(m, order) ==
    LET keys == OrderOf(m, order) IN [i \in 1..Len(keys) |-> m[keys[i]]] \o <<>>

\* a less that leaves records of one time unordered
LessByTimeOnly(a, b) == a.UpdatedAt > b.UpdatedAt

\* the less function of sortConversationsByUpdatedAtDesc
LessUpdatedAtDesc(a, b) ==
    IF a.UpdatedAt = b.UpdatedAt THEN StrLess(a.ID, b.ID)
    ELSE a.UpdatedAt > b.UpdatedAt

\* the less function of the sort in compactLocked
LessCompact(a, b) ==
    IF a.UpdatedAt = b.UpdatedAt THEN StrLess(a.ID, b.ID)
    ELSE a.UpdatedAt < b.UpdatedAt

Less(a, b, by) == IF by = "desc" THEN LessUpdatedAtDesc(a, b) ELSE LessCompact(a, b)

\* sort.Slice(s, less): element i goes to the place after the elements that
\* are less than it and the elements before it that less does not tell from
\* it.  With a less that orders any two elements, as here (ids are unique),
\* this is the one sorted permutation sort.Slice can return.
SortSlice(s, by) ==
    LET n == Len(s)
        before(j, i) == \/ Less(s[j], s[i], by)
                        \/ (j < i /\ ~Less(s[i], s[j], by))
        place == [i \in 1..n |-> 1 + Cardinality({j \in 1..n : j # i /\ before(j, i)})]
                 \o <<>>
    IN [k \in 1..n |-> s[CHOOSE i \in 1..n : place[i] = k]] \o <<>>

sortConversationsByUpdatedAtDesc(convos) == SortSlice(convos, "desc")

(***************************************************************************)
(* Writing the log.  io names what the file system does during the call:   *)
(* "ok", or the step that fails.                                            *)
(***************************************************************************)
IOOutcomes == {"ok", "lock", "open", "write", "writePartial", "sync", "compact"}

\* file.Write(bts) in append mode, all bytes written: the line joins an
\* unterminated last line if there is one, and is a new line otherwise
WriteLine(d, line) ==
    IF d.torn THEN [d EXCEPT !.index[Len(d.index)] = GarbageLine, !.torn = FALSE]
    ELSE [d EXCEPT !.index = Append(d.index, line)]

\* file.Write(bts) failing after some of the bytes
WritePart(d) ==
    IF d.torn THEN d
    ELSE [d EXCEPT !.index = Append(d.index, GarbageLine), !.torn = TRUE]

\* an append that counts an event whose sync failed
AppendEventLockedCounts(d, evt, io) ==
    IF io \in {"lock", "open", "write", "writePartial"}
        THEN [err |-> "write index event", db |-> d]
    ELSE IF io = "sync"
        THEN [err |-> "sync index",
              db |-> [WriteLine(d, Marshal(evt)) EXCEPT !.ops = d.ops + 1]]
    ELSE [err |-> "nil",
          db |-> [WriteLine(d, Marshal(evt)) EXCEPT !.ops = d.ops + 1]]

\* DB.appendEventLocked
AppendEventLocked(d, evt, io) ==
    IF io = "lock" THEN [err |-> "lock index", db |-> d]
    ELSE IF io = "open" THEN [err |-> "open index", db |-> d]
    ELSE IF io = "write" THEN [err |-> "write index event", db |-> d]
    ELSE IF io = "writePartial" THEN [err |-> "write index event", db |-> WritePart(d)]
    ELSE IF io = "sync" THEN [err |-> "sync index", db |-> WriteLine(d, Marshal(evt))]
    ELSE [err |-> "nil",
          db |-> [WriteLine(d, Marshal(evt)) EXCEPT !.ops = d.ops + 1]]

\* a compaction that leaves the counter where it was
CompactLockedKeepsCounter(d, io, order) ==
    IF io = "compact" THEN [err |-> "compact", db |-> d, compact |-> "failed"]
    ELSE LET items == SortSlice(Collect(d.conversations, order), "compact") IN
         [err |-> "nil",
          compact |-> "done",
          db |-> [d EXCEPT
                     !.index = [i \in 1..Len(items) |-> Marshal(UpsertEvent(items[i]))]
                              \o <<>>,
                     !.torn = FALSE]]

\* DB.compactLocked; a failure of any step up to the rename leaves
\* index.jsonl and the counter as they were
CompactLocked(d, io, order) ==
    IF io = "compact" THEN [err |-> "compact", db |-> d, compact |-> "failed"]
    ELSE LET items == SortSlice(Collect(d.conversations, order), "compact") IN
         [err |-> "nil",
          compact |-> "done",
          db |-> [d EXCEPT
                     !.index = [i \in 1..Len(items) |-> Marshal(UpsertEvent(items[i]))]
                              \o <<>>,
                     !.torn = FALSE,
                     !.ops = Cardinality(DOMAIN d.conversations)]]

\* a trigger that waits for the counter to pass compactMinOps
CompactIfNeededAbove(d, io, order) ==
    IF d.ops <= compactMinOps THEN [err |-> "nil", db |-> d, compact |-> "none"]
    ELSE IF /\ Cardinality(DOMAIN d.conversations) > 0
            /\ d.ops < Cardinality(DOMAIN d.conversations) * compactScaleFactor
        THEN [err |-> "nil", db |-> d, compact |-> "none"]
    ELSE CompactLocked(d, io, order)

\* DB.compactIfNeededLocked
CompactIfNeededLocked(d, io, order) ==
    IF d.ops < compactMinOps THEN [err |-> "nil", db |-> d, compact |-> "none"]
    ELSE IF /\ Cardinality(DOMAIN d.conversations) > 0
            /\ d.ops < Cardinality(DOMAIN d.conversations) * compactScaleFactor
        THEN [err |-> "nil", db |-> d, compact |-> "none"]
    ELSE CompactLocked(d, io, order)

(***************************************************************************)
(* The operations of a handle.  Each gives the store after the call, the   *)
(* error returned, and what happened on the way: whether the event was      *)
(* appended, whether a compaction ran ("none", "done", "failed") and the     *)
(* map as it was when the compaction started.                               *)
(***************************************************************************)
Outcome(d, err, appended, compact, atCompact) ==
    [db |-> d, err |-> err, appended |-> appended, compact |-> compact,
     atCompact |-> atCompact]

\* the part of DB.Save and DB.Delete after the map was changed: append the
\* event, then compact if needed
AppendAndCompact(d, evt, io, order) ==
    LET a == AppendEventLocked(d, evt, io) IN
    IF a.err # "nil" THEN Outcome(a.db, a.err, FALSE, "none", EmptyMap)
    ELSE LET k == CompactIfNeededLocked(a.db, io, order) IN
         Outcome(k.db, k.err, TRUE, k.compact,
                 IF k.compact = "none" THEN EmptyMap ELSE a.db.conversations)

\* DB.Save(id, title, api, model) at the clock reading now
DoSave(d, id, title, api, model, now, io, order) ==
    IF TrimSpace(id) = <<>> THEN Outcome(d, "empty id", FALSE, "none", EmptyMap)
    ELSE IF TrimSpace(title) = <<>> THEN Outcome(d, "empty title", FALSE, "none", EmptyMap)
    ELSE LET convo == NewConversation(id, title, now, api, model) IN
         AppendAndCompact([d EXCEPT !.conversations = MapPut(d.conversations, id, convo)],
                          UpsertEvent(convo), io, order)

\* a Delete that leaves the record in the map
DoDeleteKeeps(d, id, io, order) ==
    IF TrimSpace(id) = <<>> THEN Outcome(d, "empty id", FALSE, "none", EmptyMap)
    ELSE IF id \notin DOMAIN d.conversations THEN Outcome(d, "nil", FALSE, "none", EmptyMap)
    ELSE AppendAndCompact(d, DeleteEvent(id), io, order)

\* a Delete that goes on to the compaction test when the id is absent
DoDeleteEvaluates(d, id, io, order) ==
    IF TrimSpace(id) = <<>> THEN Outcome(d, "empty id", FALSE, "none", EmptyMap)
    ELSE IF id \notin DOMAIN d.conversations
        THEN LET k == CompactIfNeededLocked(d, io, order) IN
             Outcome(k.db, k.err, FALSE, k.compact,
                     IF k.compact = "none" THEN EmptyMap ELSE d.conversations)
    ELSE AppendAndCompact([d EXCEPT !.conversations = MapDelete(d.conversations, id)],
                          DeleteEvent(id), io, order)

\* DB.Delete(id)
DoDelete(d, id, io, order) ==
    IF TrimSpace(id) = <<>> THEN Outcome(d, "empty id", FALSE, "none", EmptyMap)
    ELSE IF id \notin DOMAIN d.conversations THEN Outcome(d, "nil", FALSE, "none", EmptyMap)
    ELSE AppendAndCompact([d EXCEPT !.conversations = MapDelete(d.conversations, id)],
                          DeleteEvent(id), io, order)

\* DB.List, the map visited in the order `order`
DoList(m, order) == sortConversationsByUpdatedAtDesc(Collect(m, order))

\* a FindHEAD that takes the other end of List
DoFindHEADLast(m, order) ==
    LET list == DoList(m, order) IN
    IF Len(list) = 0 THEN [err |-> "ErrNoMatches", found |-> <<>>]
    ELSE [err |-> "nil", found |-> <<list[Len(list)]>>]

\* DB.FindHEAD
DoFindHEAD(m, order) ==
    LET list == DoList(m, order) IN
    IF Len(list) = 0 THEN [err |-> "ErrNoMatches", found |-> <<>>]
    ELSE [err |-> "nil", found |-> <<list[1]>>]

\* a test that takes an id prefix of any length
FindHitAnyLength(convo, in) == HasPrefix(convo.ID, in) \/ convo.Title = in

\* the test of DB.Find on one record
FindHit(convo, in) ==
    IF Len(in) < SHA1MinLen THEN convo.Title = in
    ELSE HasPrefix(convo.ID, in) \/ convo.Title = in

\* the slice DB.Find collects: the records, in visiting order, that match
FindMatches(m, order, in) ==
    SelectSeq(Collect(m, order), LAMBDA convo : FindHit(convo, in))

\* a Find that settles for the first of several matches
DoFindFirst(m, order, in) ==
    LET matches == FindMatches(m, order, in) IN
    IF Len(matches) >= 1 THEN [err |-> "nil", found |-> <<matches[1]>>]
    ELSE [err |-> "ErrNoMatches", found |-> <<>>]

\* DB.Find(in)
DoFind(m, order, in) ==
    LET conversations == FindMatches(m, order, in) IN
    IF Len(conversations) > 1 THEN [err |-> "ErrManyMatches", found |-> <<>>]
    ELSE IF Len(conversations) = 1 THEN [err |-> "nil", found |-> <<conversations[1]>>]
    ELSE [err |-> "ErrNoMatches", found |-> <<>>]

\* sort.Strings of the strings of a set
SortStrings(S) ==
    LET place(x) == 1 + Cardinality({y \in S : StrLess(y, x)}) IN
    [k \in 1..Cardinality(S) |-> CHOOSE x \in S : place(x) = k] \o <<>>

Tab == <<9>>

\* convo.ID[:SHA1Short] of an id longer than SHA1Short
ShortID(id) == IF Len(id) > SHA1Short THEN SubSeq(id, 1, SHA1Short) ELSE id

\* an id completion that takes prefixes of SHA1MinLen bytes or more only
CompletionByIDMinLen(convo, in) == Len(in) >= SHA1MinLen /\ HasPrefix(convo.ID, in)

\* strings.HasPrefix(convo.ID, in)
CompletionByID(convo, in) == HasPrefix(convo.ID, in)

\* a title completion that shortens the id as the id completion does
TitleStringAlike(convo, in) ==
    convo.Title \o Tab \o (IF Len(in) < SHA1Short THEN ShortID(convo.ID) ELSE convo.ID)

\* "id<TAB>title" of DB.Completions
IDString(convo, in) ==
    (IF Len(in) < SHA1Short THEN ShortID(convo.ID) ELSE convo.ID) \o Tab \o convo.Title

\* "title<TAB>id" of DB.Completions
TitleString(convo, in) == convo.Title \o Tab \o ShortID(convo.ID)

\* resultSet of DB.Completions
ResultSet(m, in) ==
    {IDString(m[k], in) : k \in {j \in DOMAIN m : CompletionByID(m[j], in)}}
        \cup {TitleString(m[k], in) : k \in {j \in DOMAIN m : HasPrefix(m[j].Title, in)}}

\* DB.Completions(in)
DoCompletions(m, in) == SortStrings(ResultSet(m, in))

(***************************************************************************)
(* Inputs.                                                                  *)
(***************************************************************************)
\* "é" in UTF-8: one character, two bytes
Eacute == <<195, 169>>

\* two ids that share "éé11", and the title "éé11"
IdA == Eacute \o Eacute \o <<49, 49, 97>>
IdB == Eacute \o Eacute \o <<49, 49, 98>>
TitleShared == Eacute \o Eacute \o <<49, 49>>
\* a title that is not valid UTF-8: the byte 0xFF
TitleRaw == <<255>>
TitleBulk == <<116>>
ApiA == <<97>>
ApiB == <<98>>

\* the ids "b000", "b010", ..., of the records that fill a large store
BulkId(i) == <<98, 48 + (i \div 10), 48 + (i % 10), 48>>

Request(id, title, api, model) == [id |-> id, title |-> title, api |-> api, model |-> model]

SaveRequests ==
    {Request(IdA, TitleShared, ApiA, ApiA),
     Request(IdA, TitleRaw, ApiB, ApiB),
     Request(IdB, TitleShared, ApiA, ApiB),
     Request(BulkId(0), TitleBulk, ApiA, ApiA),
     Request(<<>>, TitleShared, ApiA, ApiA),
     Request(<<32>>, TitleShared, ApiA, ApiA),
     Request(IdB, <<>>, ApiA, ApiA),
     Request(IdA, <<32, 9>>, ApiA, ApiA)}

DeleteIds == {IdA, IdB, BulkId(0), <<32>>}

Queries ==
    {Eacute \o Eacute,        \* 2 characters, 4 bytes: starts IdA and IdB
     TitleShared,             \* 4 characters: a title, and starts IdA and IdB
     IdA,
     TitleRaw,                \* 1 byte: a title
     <<98, 48, 48>>,          \* "b00": 3 characters of the id "b000"
     BulkId(0)}

(***************************************************************************)
(* Directories a handle may be opened on: each is left by a run of Saves   *)
(* of an earlier handle on an empty directory.                              *)
(***************************************************************************)
EmptyStore == [conversations |-> EmptyMap, ops |-> 0, index |-> <<>>, torn |-> FALSE]

SaveOne(d, r) ==
    DoSave(d, r.id, r.title, r.api, r.model, r.now, "ok", [kind |-> "fwd", seq |-> <<>>]).db

\* the Saves reqs[lo..hi] in order (the range is halved, and the first half
\* evaluated before the second starts, to keep the evaluation shallow)
RECURSIVE SaveRange(_, _, _, _)
SaveRange(d, reqs, lo, hi) ==
    IF lo > hi THEN d
    ELSE IF lo = hi THEN SaveOne(d, reqs[lo])
    ELSE LET mid == (lo + hi) \div 2
             half == SaveRange(d, reqs, lo, mid)
         IN IF half.ops >= 0 THEN SaveRange(half, reqs, mid + 1, hi) ELSE half

SaveAll(d, reqs) == SaveRange(d, reqs, 1, Len(reqs))

At(r, now) == [id |-> r.id, title |-> r.title, api |-> r.api, model |-> r.model, now |-> now]

\* n Saves that go round the first `live` bulk ids
Churn(n, live) ==
    [i \in 1..n |-> At(Request(BulkId((i - 1) % live), TitleBulk, ApiA, ApiA), 1 + (i % 2))]
        \o <<>>

\* the least number of live records that keeps a log of compactMinOps events
\* from being compacted
DenseLive == (compactMinOps \div compactScaleFactor) + 1

SmallStores ==
    {EmptyStore,
     SaveAll(EmptyStore, <<At(Request(IdA, TitleShared, ApiA, ApiA), 1),
                           At(Request(IdB, TitleShared, ApiA, ApiA), 1)>>),
     SaveAll(EmptyStore, <<At(Request(IdA, TitleRaw, ApiA, ApiA), 2),
                           At(Request(IdB, TitleShared, ApiA, ApiA), 1),
                           At(Request(BulkId(0), TitleBulk, ApiA, ApiA), 1)>>)}

\* a store where the title of one record is the id of another
DeleteStores ==
    {SaveAll(EmptyStore, <<At(Request(IdA, TitleShared, ApiA, ApiA), 1),
                           At(Request(BulkId(0), IdA, ApiA, ApiA), 1)>>)}

\* lines of a log that no Save or Delete of this program writes
GoodLine(id, title) == Marshal(UpsertEvent(NewConversation(id, title, 1, ApiA, ApiA)))

JSONLine(evt) == [kind |-> "json", evt |-> evt]

UpsertNoConversation == JSONLine([Op |-> "upsert", ID |-> <<>>, Conversation |-> <<>>])

DeleteEmptyId == JSONLine(DeleteEvent(<<>>))

UnknownOp == JSONLine([Op |-> "rename", ID |-> IdA, Conversation |-> <<>>])

\* a directory holding the log `lines`
LogOf(lines) == [conversations |-> EmptyMap, ops |-> 0, index |-> lines, torn |-> FALSE]

\* logs left by another writer: with a blank line and a Delete of an absent
\* id, with a record without title, and with one line load rejects
ForeignStores ==
    {LogOf(<<>>),
     LogOf(<<GoodLine(IdA, TitleShared), BlankLine, JSONLine(DeleteEvent(BulkId(0))),
             GoodLine(IdB, TitleShared)>>),
     LogOf(<<GoodLine(IdA, <<>>), GoodLine(IdB, TitleShared)>>),
     LogOf(<<GoodLine(IdA, TitleShared), GarbageLine>>),
     LogOf(<<GoodLine(IdA, TitleShared), UpsertNoConversation>>),
     LogOf(<<GoodLine(<<>>, TitleShared)>>),
     LogOf(<<GoodLine(IdA, TitleShared), DeleteEmptyId>>),
     LogOf(<<BlankLine, UnknownOp, GoodLine(IdA, TitleShared)>>)}

LargeStores ==
    {SaveAll(EmptyStore, Churn(compactMinOps - 2, 1)),
     SaveAll(EmptyStore, Churn(compactMinOps - 1, DenseLive)),
     SaveAll(EmptyStore, Churn(DenseLive * compactScaleFactor - 2, DenseLive))}

(***************************************************************************)
(* State.                                                                   *)
(***************************************************************************)
VARIABLES
    conversations,  \* DB.conversations
    ops,            \* DB.ops
    index,          \* the lines of index.jsonl
    torn,           \* index.jsonl ends in an unterminated line
    opened,         \* the handle exists (Open returned it)
    call,           \* the last call: operation and arguments
    ret,            \* what the last call returned and did
    ioFailed,       \* some call so far met an I/O failure
    steps,          \* calls made so far
    pc,             \* where each caller of the store is in its call
    cop,            \* the operation each caller is in
    perr,           \* whether the call of each caller has met an error
    mu,             \* DB.mu of each process: its writer and its readers
    fileLock,       \* the callers that hold the advisory lock on index.lock
    cType,          \* Cache.cType: the category of the payload cache
    files,          \* the files under the category directory: path -> content
    wr,             \* the concurrent writers of the cache: where each is
    rd,             \* the concurrent reader of the cache
    peer,           \* the handle a second process holds on the same directory
    chat,           \* tui.Chat: the fields of the interactive chat model
    program,        \* the Bubble Tea program that runs the chat
    compaction,     \* a compaction in progress: its step and index.jsonl.tmp
    yai             \* tui.Yai: the fields of the one-shot model

dbVars == <<conversations, ops, index, torn, opened, call, ret, ioFailed, steps>>

procVars == <<pc, cop, perr, mu, fileLock>>

cacheVars == <<cType, files, wr, rd>>

chatVars == <<chat, program>>

vars == <<dbVars, procVars, cacheVars, peer, chatVars, compaction, yai>>

(***************************************************************************)
(* The handle of a second process on the same store directory: its own map *)
(* and counter, over the one index.jsonl.                                   *)
(***************************************************************************)
NoPeer == [opened |-> FALSE, conversations |-> EmptyMap, ops |-> 0]

\* no second process
PeerIdle == peer = NoPeer

(***************************************************************************)
(* Interactive chat: tui.Chat under a Bubble Tea program.  Update handles   *)
(* one message at a time; the commands it returns run beside it and hand   *)
(* their message back later.  Streams are numbered in the order they are    *)
(* asked for; 0 stands for nil.  Rendering, the viewport and the waiting   *)
(* and render ticks are left out: they do not touch the fields below.       *)
(***************************************************************************)
MaxTurns == 2

MaxParts == 2

MaxKeys == 3

\* cfg.MaxRetries
MaxRetries == 2

chatInputState == "chatInputState"

chatStreamState == "chatStreamState"

\* NewChat: the model as constructed, with no earlier history
NewChat ==
    [state |-> chatInputState, Error |-> FALSE, historyBuf |-> <<>>, streamBuf |-> 0,
     activeStream |-> 0, activeCancel |-> 0, retries |-> 0, saved |-> 0]

\* the program before the first message: nothing in flight, no stream asked
\* for, no context cancelled
NewProgram ==
    [quit |-> FALSE, inflight |-> EmptyBag, cancelled |-> {}, started |-> 0, parts |-> 0,
     keys |-> 0, last |-> "Init", timeout |-> FALSE, resubmitted |-> 0]

ChatIdle == chat = NewChat /\ program = NewProgram

(***************************************************************************)
(* A compaction taken one file operation at a time.  index.jsonl.tmp is a  *)
(* file of its own beside the log; `at` is the operation compactLocked is  *)
(* about to make, or how the last compaction ended.                         *)
(***************************************************************************)
NoTmp == [exists |-> FALSE, lines |-> <<>>, torn |-> FALSE]

NoCompaction == [at |-> "idle", tmp |-> NoTmp, pre |-> <<>>, items |-> <<>>]

CompactionIdle == compaction = NoCompaction

\* DB.compactIfNeededLocked: the test that lets compactLocked run
CompactionDue(d) ==
    /\ ~(d.ops < compactMinOps)
    /\ ~(/\ Cardinality(DOMAIN d.conversations) > 0
         /\ d.ops < Cardinality(DOMAIN d.conversations) * compactScaleFactor)

\* DB.compactLocked: the records of the map, sorted as it writes them
CompactItems(m) == SortSlice(Collect(m, [kind |-> "fwd", seq |-> <<>>]), "compact")

\* the file compactLocked has written once every item is encoded
CompactedLines(items) == [i \in 1..Len(items) |-> Marshal(UpsertEvent(items[i]))] \o <<>>

\* the operations of DB.compactLocked in order
CompactOps == <<"Lock", "OpenFile", "Encode", "Sync", "Close", "Rename">>

\* the error DB.compactLocked returns when the operation `at` fails
CompactError(at) ==
    CASE at = "Lock" -> "lock index"
      [] at = "OpenFile" -> "open compacted index"
      [] at = "Encode" -> "write compacted index"
      [] at = "Sync" -> "sync compacted index"
      [] at = "Close" -> "close compacted index"
      [] OTHER -> "replace index with compacted version"

\* NewYai: the one-shot model as constructed
NewYai ==
    [state |-> "startState", retries |-> 0, Error |-> FALSE, Input |-> "", Prefix |-> FALSE,
     MaxRetries |-> 0, quitting |-> FALSE, quit |-> FALSE, requests |-> 0, parts |-> 0,
     keys |-> 0,
     inflight |-> [kind |-> "none", content |-> ""]]

YaiIdle == yai = NewYai

\* something in flight: a command that is running or a message on its way
\* to Update, of stream n
Task(kind, n) == [kind |-> kind, n |-> n]

\* what Update or a command leaves: the model, the contexts cancelled so
\* far, and the command or message that follows ("nil" for none)
After(c, cancelled, cmd) == [chat |-> c, cancelled |-> cancelled, cmd |-> cmd]

\* Chat.closeActiveStream
closeActiveStream(c, cancelled) ==
    After([c EXCEPT !.activeStream = 0, !.activeCancel = 0],
          cancelled \cup ({c.activeStream, c.activeCancel} \ {0}),
          "nil")

\* Chat.finishTurn; a failure of saveFn is only printed
finishTurn(c) ==
    [c EXCEPT !.historyBuf = IF c.streamBuf > 0 THEN Append(@, "response") ELSE @,
              !.streamBuf = 0,
              !.saved = @ + 1]

\* a ctrl+c that quits whatever the state
UpdateCtrlCQuits(c, cancelled) == After(c, cancelled, "Quit")

\* Chat.Update, case "ctrl+c"
UpdateCtrlC(c, cancelled) ==
    IF c.state = chatStreamState
        THEN LET closed == closeActiveStream(c, cancelled) IN
             After([finishTurn(closed.chat) EXCEPT !.state = chatInputState],
                   closed.cancelled, "nil")
    ELSE After(c, cancelled, "Quit")

\* Chat.Update, case "enter", with `text` the trimmed value of the input
UpdateEnter(c, cancelled, text) ==
    IF c.state # chatInputState THEN After(c, cancelled, "nil")
    ELSE IF text = "" THEN After(c, cancelled, "nil")
    ELSE IF text \in {"/exit", "/quit"} THEN After(c, cancelled, "Quit")
    ELSE After(c, cancelled, "chatSubmitMsg")

\* Chat.Update, case chatSubmitMsg
UpdateSubmit(c, cancelled) ==
    After([c EXCEPT !.retries = 0,
                    !.historyBuf = Append(@, "prompt"),
                    !.streamBuf = 0,
                    !.state = chatStreamState],
          cancelled, "startStreamCmd")

\* Chat.Update, case chatStreamChunkMsg
UpdateChunk(c, cancelled, content) ==
    After([c EXCEPT !.streamBuf = IF content THEN @ + 1 ELSE @],
          cancelled, "receiveStreamCmd")

\* Chat.Update, case chatStreamDoneMsg
UpdateDone(c, cancelled) ==
    After([finishTurn(c) EXCEPT !.state = chatInputState], cancelled, "nil")

\* Chat.Update, cases errs.Error and error
UpdateError(c, cancelled) == After([c EXCEPT !.Error = TRUE], cancelled, "Quit")

\* Chat.handleStreamError
handleStreamError(c, cancelled, retryable) ==
    IF retryable
        THEN IF c.retries + 1 < MaxRetries
                 THEN After([c EXCEPT !.retries = @ + 1], cancelled, "chatSubmitMsg")
             ELSE After([c EXCEPT !.retries = @ + 1], cancelled, "errs.Error")
    ELSE After(c, cancelled, "errs.Error")

\* Chat.startStreamCmd up to the call of agent.StreamContinue for stream n
startStreamCmd(c, cancelled, n, timeout) ==
    LET closed == closeActiveStream(c, cancelled) IN
    After([closed.chat EXCEPT !.activeCancel = IF timeout THEN n ELSE 0],
          closed.cancelled, "StreamContinue")

\* Chat.startStreamCmd from the return of agent.StreamContinue
streamContinued(c, cancelled, n, ok) ==
    IF ~ok THEN LET closed == closeActiveStream(c, cancelled) IN
                After(closed.chat, closed.cancelled, "errs.Error")
    ELSE After([c EXCEPT !.activeStream = n], cancelled, "receiveStreamCmd")

\* Chat.receiveStreamCmd on stream n; `next` is what the stream gives:
\* a part with text, a part without, an error part, the end with the error
\* of a step that could not start, or the end
receiveStreamCmd(c, cancelled, n, next, retryable) ==
    IF next = "text" THEN After(c, cancelled, "chunk")
    ELSE IF next = "empty" THEN After(c, cancelled, "emptyChunk")
    ELSE IF next = "errorPart"
        THEN handleStreamError(c, cancelled \cup {n}, retryable)
    ELSE IF next = "endErr"
        THEN LET closed == closeActiveStream(c, cancelled) IN
             handleStreamError(closed.chat, closed.cancelled, retryable)
    ELSE LET closed == closeActiveStream(c, cancelled) IN
         After(closed.chat, closed.cancelled, "chatStreamDoneMsg")

(***************************************************************************)
(* Callers of one store directory: threads of processes, each process with *)
(* its own handle (its own DB.mu and its own flock on index.lock).          *)
(***************************************************************************)
Callers == {<<1, 1>>, <<1, 2>>, <<2, 1>>}

ProcessOf(c) == c[1]

Processes == {ProcessOf(c) : c \in Callers}

\* nobody holds the lock
NoOne == <<>>

MuFree == [w |-> NoOne, r |-> {}]

\* where a caller is: the part of its call, and the step in it
Loc(sec, step) == [sec |-> sec, step |-> step]

Idle == Loc("idle", "")

\* all callers between calls
ProcsIdle ==
    /\ pc = [c \in Callers |-> Idle]
    /\ cop = [c \in Callers |-> "none"]
    /\ perr = [c \in Callers |-> FALSE]
    /\ mu = [p \in Processes |-> MuFree]
    /\ fileLock = {}

(***************************************************************************)
(* The payload cache: Cache[T] over the files of its category directory.   *)
(* A path is the directory under the category directory (<<>> for the      *)
(* category directory itself, else the shard), the kind of name ("json"    *)
(* for <id>.json, "tmp" for a name made by os.CreateTemp) and the name.     *)
(***************************************************************************)
ConversationCache == "conversations"

TemporaryCache == "temp"

isSharded(ct) == ct = ConversationCache

Path(dir, kind, name) == [dir |-> dir, kind |-> kind, name |-> name]

legacyFilePath(id) == Path(<<>>, "json", id)

\* a layout with the flat path only
filePathFlat(ct, id) == legacyFilePath(id)

\* Cache.filePath
filePath(ct, id) ==
    IF ~isSharded(ct) \/ Len(id) < shardPrefixLen THEN legacyFilePath(id)
    ELSE Path(SubSeq(id, 1, shardPrefixLen), "json", id)

NoFiles == <<>>

\* os.CreateTemp(dir, ".tmp-*") by writer w: a new, empty file of a name
\* no other file has
TempPath(dir, w) == Path(dir, "tmp", w)

Exists(fs, path) == path \in DOMAIN fs

\* the file at path with content bytes, created or overwritten
PutFile(fs, path, bytes) == (path :> bytes) @@ fs

\* os.Remove(path) of an existing file
RemoveFile(fs, path) == [q \in (DOMAIN fs) \ {path} |-> fs[q]] @@ NoFiles

\* a rename that gives way to a file already at `to`
RenameFileKeeps(fs, from, to) ==
    IF Exists(fs, to) THEN RemoveFile(fs, from)
    ELSE RemoveFile(PutFile(fs, to, fs[from]), from)

\* os.Rename(from, to): the file at `from` replaces whatever is at `to`
RenameFile(fs, from, to) == RemoveFile(PutFile(fs, to, fs[from]), from)

\* the steps at which Cache.Write can fail
WriteFailures == {"MkdirAll", "CreateTemp", "writeFn", "Sync", "Close", "Rename"}

\* what writeFn has written when it fails: nothing, or the first byte
WrittenBeforeFailure(p) == SubSeq(p, 1, IF Len(p) > 1 THEN 1 ELSE 0)

\* a Write whose deferred calls do not remove the temporary file
CacheWriteLeaves(fs, ct, id, p, fail, w) ==
    IF id = <<>> THEN [err |-> "invalid id", files |-> fs]
    ELSE IF fail \in {"MkdirAll", "CreateTemp"} THEN [err |-> fail, files |-> fs]
    ELSE LET path == filePath(ct, id)
             tmp == TempPath(path.dir, w)
             written == PutFile(fs, tmp, IF fail = "writeFn" THEN WrittenBeforeFailure(p)
                                         ELSE p)
         IN IF fail \in WriteFailures THEN [err |-> fail, files |-> written]
            ELSE [err |-> "nil", files |-> RenameFile(written, tmp, path)]

\* Cache.Write(id, writeFn) by writer w, writeFn writing the payload p; fail
\* names the step that fails ("none": no step does)
CacheWrite(fs, ct, id, p, fail, w) ==
    IF id = <<>> THEN [err |-> "invalid id", files |-> fs]
    ELSE IF fail \in {"MkdirAll", "CreateTemp"} THEN [err |-> fail, files |-> fs]
    ELSE LET path == filePath(ct, id)
             tmp == TempPath(path.dir, w)
             written == PutFile(fs, tmp, IF fail = "writeFn" THEN WrittenBeforeFailure(p)
                                         ELSE p)
             renamed == IF fail \in WriteFailures THEN written
                        ELSE RenameFile(written, tmp, path)
         IN [err |-> IF fail \in WriteFailures THEN fail ELSE "nil",
             files |-> IF Exists(renamed, tmp) THEN RemoveFile(renamed, tmp) ELSE renamed]

\* os.Open for Cache.Read: the content behind the handle, or no handle
OpenForRead(fs, ct, id) ==
    IF Exists(fs, filePath(ct, id)) THEN <<fs[filePath(ct, id)]>>
    ELSE IF isSharded(ct) /\ Exists(fs, legacyFilePath(id)) THEN <<fs[legacyFilePath(id)]>>
    ELSE <<>>

\* a Read that looks at the current path only
CacheReadNoLegacy(fs, ct, id, fail) ==
    IF id = <<>> THEN [err |-> "invalid id", got |-> <<>>]
    ELSE IF fail = "Open" \/ ~Exists(fs, filePath(ct, id))
        THEN [err |-> "open", got |-> <<>>]
    ELSE IF fail = "readFn" THEN [err |-> "readFn", got |-> <<>>]
    ELSE [err |-> "nil", got |-> <<fs[filePath(ct, id)]>>]

\* Cache.Read(id, readFn): got is <<p>> when readFn was given the bytes p
CacheRead(fs, ct, id, fail) ==
    IF id = <<>> THEN [err |-> "invalid id", got |-> <<>>]
    ELSE IF fail = "Open" \/ OpenForRead(fs, ct, id) = <<>>
        THEN [err |-> "open", got |-> <<>>]
    ELSE IF fail = "readFn" THEN [err |-> "readFn", got |-> <<>>]
    ELSE [err |-> "nil", got |-> OpenForRead(fs, ct, id)]

\* a Delete that takes an absent file for a removed one
CacheDeleteTolerant(fs, ct, id, fail) ==
    IF id = <<>> THEN [err |-> "invalid id", files |-> fs]
    ELSE IF fail = "Remove" THEN [err |-> "remove", files |-> fs]
    ELSE IF Exists(fs, filePath(ct, id))
        THEN [err |-> "nil", files |-> RemoveFile(fs, filePath(ct, id))]
    ELSE IF isSharded(ct) /\ Exists(fs, legacyFilePath(id))
        THEN [err |-> "nil", files |-> RemoveFile(fs, legacyFilePath(id))]
    ELSE [err |-> "nil", files |-> fs]

\* Cache.Delete(id)
CacheDelete(fs, ct, id, fail) ==
    IF id = <<>> THEN [err |-> "invalid id", files |-> fs]
    ELSE IF fail = "Remove" THEN [err |-> "remove", files |-> fs]
    ELSE IF Exists(fs, filePath(ct, id))
        THEN [err |-> "nil", files |-> RemoveFile(fs, filePath(ct, id))]
    ELSE IF isSharded(ct) /\ Exists(fs, legacyFilePath(id))
        THEN [err |-> "nil", files |-> RemoveFile(fs, legacyFilePath(id))]
    ELSE [err |-> "not exist", files |-> fs]

\* ids and payloads: "" (invalid), "a" (shorter than a shard prefix), "ab"
CacheIds == {<<>>, <<97>>, <<97, 98>>}

Payloads == {<<>>, <<1, 2>>, <<3, 4>>}

Previous == <<5, 6>>

RaceId == <<97, 98>>

RaceWriters == {1, 2}

WriterIdle == [at |-> "idle", id |-> <<>>, payload |-> <<>>, n |-> 0, err |-> "nil",
               renamed |-> FALSE]

ReaderIdle == [at |-> "idle", fh |-> <<>>, got |-> <<>>, err |-> "nil"]

\* the category directory as Open finds it: empty, with a file of "ab" at
\* its current path, at the flat path of an earlier layout, or at both
CacheSeeds(ct) ==
    {NoFiles,
     PutFile(NoFiles, filePath(ct, RaceId), Previous),
     PutFile(NoFiles, legacyFilePath(RaceId), Previous),
     PutFile(PutFile(NoFiles, legacyFilePath(RaceId), Previous),
             filePath(ct, RaceId), <<1, 2>>)}

\* no cache in use
CacheIdle ==
    /\ cType = TemporaryCache
    /\ files = NoFiles
    /\ wr = [w \in RaceWriters |-> WriterIdle]
    /\ rd = ReaderIdle

DB == [conversations |-> conversations, ops |-> ops, index |-> index, torn |-> torn]

NoCall == [op |-> "Open", id |-> <<>>, title |-> <<>>, api |-> <<>>, model |-> <<>>,
           now |-> 0, in |-> <<>>]

NoRet == [err |-> "nil", found |-> <<>>, list |-> <<>>, appended |-> FALSE,
          compact |-> "none", atCompact |-> EmptyMap]

ValidationErrors == {"empty id", "empty title"}

\* Open on the directory one of `stores` was left in: the handle holds what
\* DB.load reads from the log; there is no handle if DB.load fails
OpenOn(stores) ==
    /\ \E d \in stores :
        \E l \in {Load(d.index)} :
            /\ opened = (l.err = "nil")
            /\ conversations = IF l.err = "nil" THEN l.conversations ELSE EmptyMap
            /\ ops = IF l.err = "nil" THEN l.ops ELSE 0
            /\ index = d.index
            /\ torn = d.torn
            /\ ret = [NoRet EXCEPT !.err = l.err]
    /\ call = NoCall
    /\ ioFailed = FALSE
    /\ steps = 0

InitOn(stores) == OpenOn(stores) /\ ProcsIdle /\ CacheIdle /\ PeerIdle /\ ChatIdle /\ CompactionIdle /\ YaiIdle

Init == InitOn(SmallStores)

InitLarge == InitOn(LargeStores)

InitDelete == InitOn(DeleteStores)

InitOpen == InitOn(ForeignStores)

SetDB(d) ==
    /\ conversations' = d.conversations
    /\ ops' = d.ops
    /\ index' = d.index
    /\ torn' = d.torn

Ready == opened /\ steps < MaxSteps

Save(id, title, api, model, now, io) ==
    /\ Ready
    /\ \E o \in {DoSave(DB, id, title, api, model, now, io, order) :
                    order \in IterOrders((DOMAIN conversations) \cup {id})} :
        /\ SetDB(o.db)
        /\ call' = [NoCall EXCEPT !.op = "Save", !.id = id, !.title = title,
                                  !.api = api, !.model = model, !.now = now]
        /\ ret' = [NoRet EXCEPT !.err = o.err, !.appended = o.appended,
                                !.compact = o.compact, !.atCompact = o.atCompact]
        /\ ioFailed' = (ioFailed \/ o.err \notin ({"nil"} \cup ValidationErrors))
    /\ steps' = steps + 1
    /\ UNCHANGED <<opened, procVars, peer, chatVars, compaction, yai, cacheVars>>

Delete(id, io) ==
    /\ Ready
    /\ \E o \in {DoDelete(DB, id, io, order) :
                    order \in IterOrders((DOMAIN conversations) \ {id})} :
        /\ SetDB(o.db)
        /\ call' = [NoCall EXCEPT !.op = "Delete", !.id = id]
        /\ ret' = [NoRet EXCEPT !.err = o.err, !.appended = o.appended,
                                !.compact = o.compact, !.atCompact = o.atCompact]
        /\ ioFailed' = (ioFailed \/ o.err \notin ({"nil"} \cup ValidationErrors))
    /\ steps' = steps + 1
    /\ UNCHANGED <<opened, procVars, peer, chatVars, compaction, yai, cacheVars>>

Find(in) ==
    /\ Ready
    /\ \E f \in {DoFind(conversations, order, in) :
                    order \in IterOrders(DOMAIN conversations)} :
        /\ call' = [NoCall EXCEPT !.op = "Find", !.in = in]
        /\ ret' = [NoRet EXCEPT !.err = f.err, !.found = f.found]
    /\ steps' = steps + 1
    /\ UNCHANGED <<conversations, ops, index, torn, opened, ioFailed, procVars, peer, chatVars, compaction, yai, cacheVars>>

List ==
    /\ Ready
    /\ \E list \in {DoList(conversations, order) :
                       order \in IterOrders(DOMAIN conversations)} :
        /\ call' = [NoCall EXCEPT !.op = "List"]
        /\ ret' = [NoRet EXCEPT !.list = list]
    /\ steps' = steps + 1
    /\ UNCHANGED <<conversations, ops, index, torn, opened, ioFailed, procVars, peer, chatVars, compaction, yai, cacheVars>>

FindHEAD ==
    /\ Ready
    /\ \E f \in {DoFindHEAD(conversations, order) :
                    order \in IterOrders(DOMAIN conversations)} :
        /\ call' = [NoCall EXCEPT !.op = "FindHEAD"]
        /\ ret' = [NoRet EXCEPT !.err = f.err, !.found = f.found]
    /\ steps' = steps + 1
    /\ UNCHANGED <<conversations, ops, index, torn, opened, ioFailed, procVars, peer, chatVars, compaction, yai, cacheVars>>

\* Close, then Open on the same directory: a new handle, loaded from the log
Reopen(io) ==
    /\ steps < MaxSteps
    /\ \E l \in {IF io = "lock" THEN [err |-> "could not lock index file",
                                      conversations |-> EmptyMap, ops |-> 0]
                 ELSE Load(index)} :
        /\ opened' = (l.err = "nil")
        /\ conversations' = IF l.err = "nil" THEN l.conversations ELSE EmptyMap
        /\ ops' = IF l.err = "nil" THEN l.ops ELSE 0
        /\ call' = NoCall
        /\ ret' = [NoRet EXCEPT !.err = l.err]
        /\ ioFailed' = (ioFailed \/ io = "lock")
    /\ steps' = steps + 1
    /\ UNCHANGED <<index, torn, procVars, peer, chatVars, compaction, yai, cacheVars>>

Next ==
    \/ \E r \in SaveRequests, now \in 1..MaxTime, io \in IOOutcomes :
           Save(r.id, r.title, r.api, r.model, now, io)
    \/ \E id \in DeleteIds, io \in IOOutcomes : Delete(id, io)
    \/ \E in \in Queries : Find(in)
    \/ List
    \/ FindHEAD
    \/ \E io \in {"ok", "lock"} : Reopen(io)

Spec == Init /\ [][Next]_vars

SpecLarge == InitLarge /\ [][Next]_vars

SpecDelete == InitDelete /\ [][Next]_vars

SpecOpen == InitOpen /\ [][Next]_vars

(***************************************************************************)
(* Completions, on stores whose ids are longer than the display length.    *)
(***************************************************************************)
\* "éé11ac": 8 bytes, IdA and one more
IdLong == IdA \o <<99>>
\* "aaaaaaé": 7 characters, 8 bytes
IdCut == <<97, 97, 97, 97, 97, 97>> \o Eacute

CompletionStores ==
    {SaveAll(EmptyStore, <<At(Request(IdA, TitleShared, ApiA, ApiA), 1),
                           At(Request(IdLong, TitleShared, ApiA, ApiA), 1)>>),
     SaveAll(EmptyStore, <<At(Request(IdCut, IdLong, ApiA, ApiA), 1),
                           At(Request(IdLong, TitleBulk, ApiA, ApiA), 2)>>)}

CompletionQueries == {<<>>, Eacute \o Eacute, IdA, IdLong, <<97, 97>>, TitleBulk}

InitCompletions == InitOn(CompletionStores)

Completions(in) ==
    /\ Ready
    /\ call' = [NoCall EXCEPT !.op = "Completions", !.in = in]
    /\ ret' = [NoRet EXCEPT !.list = DoCompletions(conversations, in)]
    /\ steps' = steps + 1
    /\ UNCHANGED <<conversations, ops, index, torn, opened, ioFailed, procVars, peer, chatVars, compaction, yai, cacheVars>>

NextCompletions ==
    \/ \E r \in SaveRequests, io \in {"ok", "write"} :
           Save(r.id, r.title, r.api, r.model, MaxTime, io)
    \/ \E id \in {IdA, IdLong} : Delete(id, "ok")
    \/ \E in \in CompletionQueries : Completions(in)

SpecCompletions == InitCompletions /\ [][NextCompletions]_vars

(***************************************************************************)
(* The conversation store of the commands: the index and the payload cache *)
(* of the "conversations" category, used together.                          *)
(***************************************************************************)
\* cache.Conversations.Write(id, &msgs), the messages encoded as p
ConversationsWrite(fs, id, p, fail) == CacheWrite(fs, ConversationCache, id, p, fail, 0)

\* cache.Conversations.Delete(id)
ConversationsDelete(fs, id, fail) == CacheDelete(fs, ConversationCache, id, fail)

IsHex(c) == c \in 48..57 \/ c \in 97..102

\* \w of the regular expression
IsWord(c) == c \in 48..57 \/ c \in 65..90 \/ c \in 97..122 \/ c = 95

\* SHA1Regexp.MatchString(t): a run of 40 hex digits between word boundaries
SHA1Match(t) ==
    \E i \in 1..Len(t) :
        /\ i + 39 <= Len(t)
        /\ \A k \in i..(i + 39) : IsHex(t[k])
        /\ i = 1 \/ ~IsWord(t[i - 1])
        /\ i + 39 = Len(t) \/ ~IsWord(t[i + 40])

\* firstLine(s): s up to its first line feed
firstLine(str) ==
    IF \E i \in 1..Len(str) : str[i] = 10
    THEN SubSeq(str, 1, (CHOOSE i \in 1..Len(str) :
                            str[i] = 10 /\ \A k \in 1..(i - 1) : str[k] # 10) - 1)
    ELSE str

\* the title saveConversation gives the record
SaveTitle(cfg) ==
    IF SHA1Match(TrimSpace(cfg.title)) \/ TrimSpace(cfg.title) = <<>>
    THEN firstLine(cfg.prompt)
    ELSE TrimSpace(cfg.title)

\* what a command did: the store and the files after it, the error it
\* returned and the calls it made on the index and on the cache, in order
Done(d, fs, err, trace) == [db |-> d, files |-> fs, err |-> err, trace |-> trace]

\* a saveConversation that writes the record before the payload
saveConversationIndexFirst(d, fs, cfg, p, now, fail, io, dfail, order) ==
    IF cfg.noCache THEN Done(d, fs, "nil", <<>>)
    ELSE LET s == DoSave(d, cfg.id, SaveTitle(cfg), cfg.api, cfg.model, now, io, order) IN
         IF s.err # "nil" THEN Done(s.db, fs, s.err, <<"DB.Save">>)
         ELSE LET w == ConversationsWrite(fs, cfg.id, p, fail) IN
              IF w.err # "nil" THEN Done(s.db, w.files, w.err, <<"DB.Save", "Cache.Write">>)
              ELSE IF ~cfg.quiet /\ Len(cfg.id) < SHA1Short
                  THEN Done(s.db, w.files, "panic", <<"DB.Save", "Cache.Write">>)
              ELSE Done(s.db, w.files, "nil", <<"DB.Save", "Cache.Write">>)

\* saveConversation(cfg, store, msgs); the slice CacheWriteToID[:SHA1Short]
\* of the message printed at the end panics on a shorter id
saveConversation(d, fs, cfg, p, now, fail, io, dfail, order) ==
    IF cfg.noCache THEN Done(d, fs, "nil", <<>>)
    ELSE LET w == ConversationsWrite(fs, cfg.id, p, fail) IN
         IF w.err # "nil" THEN Done(d, w.files, w.err, <<"Cache.Write">>)
         ELSE LET s == DoSave(d, cfg.id, SaveTitle(cfg), cfg.api, cfg.model, now, io, order) IN
              IF s.err # "nil"
                  THEN Done(s.db, ConversationsDelete(w.files, cfg.id, dfail).files, s.err,
                            <<"Cache.Write", "DB.Save", "Cache.Delete">>)
              ELSE IF ~cfg.quiet /\ Len(cfg.id) < SHA1Short
                  THEN Done(s.db, w.files, "panic", <<"Cache.Write", "DB.Save">>)
              ELSE Done(s.db, w.files, "nil", <<"Cache.Write", "DB.Save">>)

\* deleteConversationByID(cfg, store, id); the slice id[:SHA1MinLen] of the
\* message printed at the end panics on a shorter id
deleteConversationByID(d, fs, id, quiet, io, dfail, order) ==
    LET r == DoDelete(d, id, io, order) IN
    IF r.err # "nil" THEN Done(r.db, fs, r.err, <<"DB.Delete">>)
    ELSE LET c == ConversationsDelete(fs, id, dfail) IN
         IF c.err # "nil" THEN Done(r.db, c.files, c.err, <<"DB.Delete", "Cache.Delete">>)
         ELSE IF ~quiet /\ Len(id) < SHA1MinLen
             THEN Done(r.db, c.files, "panic", <<"DB.Delete", "Cache.Delete">>)
         ELSE Done(r.db, c.files, "nil", <<"DB.Delete", "Cache.Delete">>)

\* a full id as NewConversationID makes them, and a title that is one
Hex40 == [i \in 1..40 |-> IF i = 1 THEN 99 ELSE 48 + (i % 10)] \o <<>>

Config(id, title, prompt, quiet, noCache) ==
    [id |-> id, title |-> title, prompt |-> prompt, api |-> ApiA, model |-> ApiB,
     quiet |-> quiet, noCache |-> noCache]

\* CacheWriteToID and CacheWriteToTitle of the configuration, and the last
\* prompt of the messages: "t\nt" has two lines
SaveConfigs ==
    {Config(IdA, TitleShared, TitleBulk, TRUE, FALSE),
     Config(IdA, <<32>>, TitleBulk \o <<10>> \o TitleBulk, FALSE, FALSE),
     Config(IdA, <<>>, <<>>, TRUE, FALSE),
     Config(Hex40, Hex40, TitleBulk, FALSE, FALSE),
     Config(BulkId(0), TitleShared, TitleBulk, FALSE, FALSE),
     Config(<<>>, TitleShared, TitleBulk, TRUE, FALSE),
     Config(IdB, TitleShared, TitleBulk, TRUE, TRUE)}

\* the ids deleted, with cfg.Quiet: "b0" is shorter than SHA1MinLen
FacadeDeletes ==
    {[id |-> IdA, quiet |-> TRUE], [id |-> IdB, quiet |-> TRUE],
     [id |-> Hex40, quiet |-> FALSE], [id |-> <<98, 48>>, quiet |-> FALSE]}

\* the directory as an earlier run left it: empty, or with the record of
\* IdA and its payload at the sharded or at the flat path
FacadeSeeds ==
    LET one == SaveAll(EmptyStore, <<At(Request(IdA, TitleShared, ApiA, ApiA), 1)>>) IN
    {[db |-> EmptyStore, files |-> NoFiles],
     [db |-> one, files |-> PutFile(NoFiles, filePath(ConversationCache, IdA), Previous)],
     [db |-> one, files |-> PutFile(NoFiles, legacyFilePath(IdA), Previous)]}

InitFacade ==
    /\ \E seed \in FacadeSeeds :
        /\ OpenOn({seed.db})
        /\ files = seed.files
    /\ ProcsIdle
    /\ PeerIdle
    /\ ChatIdle /\ CompactionIdle /\ YaiIdle
    /\ cType = ConversationCache
    /\ wr = [w \in RaceWriters |-> WriterIdle]
    /\ rd = ReaderIdle

FacadeCall(op, cfg, p, fail, io, dfail) ==
    [op |-> op, cfg |-> cfg, payload |-> p, fail |-> fail, io |-> io, dfail |-> dfail]

FacadeRet(o) == [err |-> o.err, trace |-> o.trace]

FacadeStep(o) ==
    /\ SetDB(o.db)
    /\ files' = o.files
    /\ ret' = FacadeRet(o)
    /\ ioFailed' = (ioFailed \/ o.err \notin ({"nil"} \cup ValidationErrors))
    /\ steps' = steps + 1
    /\ UNCHANGED <<opened, procVars, peer, chatVars, compaction, yai, cType, wr, rd>>

SaveConversation(cfg, p, now, fail, io, dfail) ==
    /\ Ready
    /\ \E o \in {saveConversation(DB, files, cfg, p, now, fail, io, dfail, order) :
                    order \in IterOrders((DOMAIN conversations) \cup {cfg.id})} :
        FacadeStep(o)
    /\ call' = FacadeCall("saveConversation", cfg, p, fail, io, dfail)

DeleteConversation(id, quiet, io, dfail) ==
    /\ Ready
    /\ \E o \in {deleteConversationByID(DB, files, id, quiet, io, dfail, order) :
                    order \in IterOrders((DOMAIN conversations) \ {id})} :
        FacadeStep(o)
    /\ call' = FacadeCall("deleteConversationByID",
                          Config(id, <<>>, <<>>, quiet, FALSE), <<>>, "none", io, dfail)

\* the outcomes of the index files the commands are run with
FacadeIO == {"ok", "sync"}

FacadePayloads == {<<1, 2>>, <<3, 4>>}

NextFacade ==
    \/ \E cfg \in SaveConfigs, p \in FacadePayloads, fail \in {"none", "Rename"},
          io \in FacadeIO, dfail \in {"none", "Remove"} :
           SaveConversation(cfg, p, MaxTime, fail, io, dfail)
    \/ \E del \in FacadeDeletes, io \in FacadeIO, dfail \in {"none", "Remove"} :
           DeleteConversation(del.id, del.quiet, io, dfail)

SpecFacade == InitFacade /\ [][NextFacade]_vars

(***************************************************************************)
(* planConversation: which record a run reads and which it writes.         *)
(***************************************************************************)
\* ordered.First(a, b): the first that is not empty
First(a, b) == IF a # <<>> THEN a ELSE b

Found(err, found, via) == [err |-> err, found |-> found, via |-> via]

\* a lookup that falls back to the latest record on every error of Find
findReadConversationAnyError(m, cfg, in, order) ==
    LET f == DoFind(m, order, in) IN
    IF f.err = "nil" THEN Found("nil", f.found, "Find")
    ELSE LET h == DoFindHEAD(m, order) IN
         IF h.err # "nil" THEN Found("find latest conversation", <<>>, "FindHEAD")
         ELSE Found("nil", h.found, "FindHEAD")

\* findReadConversation(cfg, db, in)
findReadConversation(m, cfg, in, order) ==
    LET f == DoFind(m, order, in) IN
    IF f.err = "nil" THEN Found("nil", f.found, "Find")
    ELSE IF f.err = "ErrNoMatches" /\ cfg.Show = <<>>
        THEN LET h == DoFindHEAD(m, order) IN
             IF h.err # "nil" THEN Found("find latest conversation", <<>>, "FindHEAD")
             ELSE Found("nil", h.found, "FindHEAD")
    ELSE Found("find conversation", <<>>, "Find")

NoPlan == [WriteID |-> <<>>, Title |-> <<>>, ReadID |-> <<>>, API |-> <<>>, Model |-> <<>>]

Planned(err, plan, via) == [err |-> err, plan |-> plan, via |-> via]

\* the part of planConversation after the record to read was looked up
PlanWrite(m, cfg, readID, writeID, api, model, via, newID, order) ==
    LET continueLast == cfg.ContinueLast \/ (cfg.Continue # <<>> /\ cfg.Title = <<>>)
        w1 == IF continueLast THEN readID ELSE writeID
        w2 == IF w1 = <<>> THEN newID ELSE w1
        w3 == IF SHA1Match(w2) THEN w2
              ELSE LET f == DoFind(m, order, w2) IN
                   IF f.err # "nil" THEN newID ELSE f.found[1].ID
    IN Planned("nil",
               [WriteID |-> w3, Title |-> First(cfg.Title, cfg.Continue), ReadID |-> readID,
                API |-> api, Model |-> model],
               via)

\* a planConversation that does not write to the record it continues
planConversationKeepsWriteID(m, cfg, newID, order) ==
    LET continueLast == cfg.ContinueLast \/ (cfg.Continue # <<>> /\ cfg.Title = <<>>)
        readID == First(cfg.Continue, cfg.Show)
        writeID == First(cfg.Title, cfg.Continue)
    IN IF readID # <<>> \/ continueLast \/ cfg.ShowLast
       THEN LET r == findReadConversation(m, cfg, readID, order) IN
            IF r.err # "nil" THEN Planned("Could not find the conversation.", NoPlan, r.via)
            ELSE PlanWrite(m, [cfg EXCEPT !.ContinueLast = FALSE, !.Title = writeID],
                           r.found[1].ID, writeID, r.found[1].API, r.found[1].Model,
                           r.via, newID, order)
       ELSE PlanWrite(m, cfg, readID, writeID, cfg.API, cfg.Model, "none", newID, order)

\* planConversation(cfg, db); newID is what NewConversationID returns
planConversation(m, cfg, newID, order) ==
    LET continueLast == cfg.ContinueLast \/ (cfg.Continue # <<>> /\ cfg.Title = <<>>)
        readID == First(cfg.Continue, cfg.Show)
        writeID == First(cfg.Title, cfg.Continue)
    IN IF readID # <<>> \/ continueLast \/ cfg.ShowLast
       THEN LET r == findReadConversation(m, cfg, readID, order) IN
            IF r.err # "nil" THEN Planned("Could not find the conversation.", NoPlan, r.via)
            ELSE PlanWrite(m, cfg, r.found[1].ID, writeID, r.found[1].API, r.found[1].Model,
                           r.via, newID, order)
       ELSE PlanWrite(m, cfg, readID, writeID, cfg.API, cfg.Model, "none", newID, order)

\* three ids as NewConversationID makes them; HexA and HexB share 5 digits
HexA == Hex40
HexB == [Hex40 EXCEPT ![6] = 102]
HexNew == [Hex40 EXCEPT ![1] = 100]

TitleOne == <<116, 49>>
TitleTwo == <<116, 50>>
NoSuch == <<122, 122>>

PlanCfg(continue, title, show, continueLast, showLast) ==
    [Continue |-> continue, Title |-> title, Show |-> show, ContinueLast |-> continueLast,
     ShowLast |-> showLast, API |-> ApiB, Model |-> ApiB]

PlanConfigs ==
    {PlanCfg(<<>>, <<>>, <<>>, FALSE, FALSE),
     PlanCfg(SubSeq(HexA, 1, 8), <<>>, <<>>, FALSE, FALSE),
     PlanCfg(SubSeq(HexA, 1, 4), <<>>, <<>>, FALSE, FALSE),
     PlanCfg(TitleOne, <<>>, <<>>, FALSE, FALSE),
     PlanCfg(NoSuch, <<>>, <<>>, FALSE, FALSE),
     PlanCfg(<<>>, <<>>, <<>>, TRUE, FALSE),
     PlanCfg(<<>>, <<>>, SubSeq(HexA, 1, 8), TRUE, FALSE),
     PlanCfg(SubSeq(HexA, 1, 8), NoSuch, <<>>, FALSE, FALSE),
     PlanCfg(<<>>, TitleOne, <<>>, FALSE, FALSE),
     PlanCfg(<<>>, <<>>, SubSeq(HexA, 1, 8), FALSE, FALSE),
     PlanCfg(<<>>, <<>>, NoSuch, FALSE, FALSE),
     PlanCfg(<<>>, <<>>, SubSeq(HexA, 1, 4), FALSE, FALSE),
     PlanCfg(NoSuch, <<>>, TitleOne, FALSE, FALSE),
     PlanCfg(<<>>, <<>>, <<>>, FALSE, TRUE)}

\* stores of records with full ids: none; two with titles of their own, the
\* second saved later; two of one title and one time
PlanStores ==
    {EmptyStore,
     SaveAll(EmptyStore, <<At(Request(HexA, TitleOne, ApiA, ApiA), 1),
                           At(Request(HexB, TitleTwo, ApiA, ApiA), 2)>>),
     SaveAll(EmptyStore, <<At(Request(HexA, TitleOne, ApiA, ApiA), 1),
                           At(Request(HexB, TitleOne, ApiA, ApiA), 1)>>)}

InitPlan ==
    /\ OpenOn(PlanStores)
    /\ ProcsIdle
    /\ PeerIdle
    /\ ChatIdle /\ CompactionIdle /\ YaiIdle
    /\ cType = ConversationCache
    /\ files = NoFiles
    /\ wr = [w \in RaceWriters |-> WriterIdle]
    /\ rd = ReaderIdle

PlanConversation(cfg) ==
    /\ Ready
    /\ \E o \in {planConversation(conversations, cfg, HexNew, order) :
                    order \in IterOrders(DOMAIN conversations)} :
        ret' = o
    /\ call' = [op |-> "planConversation", cfg |-> cfg]
    /\ steps' = steps + 1
    /\ UNCHANGED <<conversations, ops, index, torn, opened, ioFailed, procVars, peer, chatVars, compaction, yai, cacheVars>>

\* the run saves under the ids of its plan: CacheWriteToID and
\* CacheWriteToTitle are WriteID and Title of the plan
SavePlanned(p, io) ==
    /\ Ready
    /\ call.op = "planConversation"
    /\ ret.err = "nil"
    /\ \E o \in {saveConversation(DB, files,
                                  [Config(ret.plan.WriteID, ret.plan.Title, TitleBulk,
                                          TRUE, FALSE)
                                      EXCEPT !.api = ret.plan.API, !.model = ret.plan.Model],
                                  p, MaxTime, "none", io, "none", order) :
                    order \in IterOrders((DOMAIN conversations) \cup {ret.plan.WriteID})} :
        FacadeStep(o)
    /\ call' = [op |-> "saveConversation", cfg |-> call.cfg, plan |-> ret.plan]

NextPlan ==
    \/ \E cfg \in PlanConfigs : PlanConversation(cfg)
    \/ \E p \in FacadePayloads, io \in FacadeIO : SavePlanned(p, io)

SpecPlan == InitPlan /\ [][NextPlan]_vars

(***************************************************************************)
(* The chat as the program runs it: keys and messages reach Update one at  *)
(* a time, in any order; a command runs between them.                      *)
(***************************************************************************)
InitChat ==
    /\ OpenOn({EmptyStore})
    /\ ProcsIdle
    /\ CacheIdle
    /\ PeerIdle
    /\ CompactionIdle
    /\ YaiIdle
    /\ chat = NewChat
    /\ \E timeout \in BOOLEAN, initialPrompt \in BOOLEAN :
        program = [NewProgram EXCEPT
                      !.timeout = timeout,
                      !.inflight = IF initialPrompt
                                       THEN SetToBag({Task("chatSubmitMsg", 0)})
                                   ELSE EmptyBag]

Running == ~program.quit

InFlight(kind, n) == BagIn(Task(kind, n), program.inflight)

\* the command or message that follows a step, as something in flight
Follow(cmd, n) ==
    IF cmd \in {"nil", "Quit"} THEN EmptyBag
    ELSE IF cmd \in {"chatSubmitMsg", "startStreamCmd"} THEN SetToBag({Task(cmd, 0)})
    ELSE SetToBag({Task(cmd, n)})

\* the program after a step that took `taken` out of flight and left o;
\* p is the program with its counters moved on.  resubmitted counts the
\* chatSubmitMsg that commands have returned since the last one from a key
ChatStep(p, o, taken, n, last) ==
    /\ chat' = o.chat
    /\ program' = [p EXCEPT !.quit = (o.cmd = "Quit"),
                            !.cancelled = o.cancelled,
                            !.inflight = (@ (-) taken) (+) Follow(o.cmd, n),
                            !.last = last,
                            !.resubmitted = IF o.cmd # "chatSubmitMsg" THEN @
                                            ELSE IF taken = EmptyBag THEN 0
                                            ELSE @ + 1]
    /\ UNCHANGED <<dbVars, procVars, cacheVars, peer, compaction, yai>>

KeyCtrlC ==
    /\ Running
    /\ program.keys < MaxKeys
    /\ ChatStep([program EXCEPT !.keys = @ + 1],
                UpdateCtrlC(chat, program.cancelled), EmptyBag, 0, "ctrl+c")

KeyEnter(text) ==
    /\ Running
    /\ program.keys < MaxKeys
    /\ ChatStep([program EXCEPT !.keys = @ + 1],
                UpdateEnter(chat, program.cancelled, text), EmptyBag, 0, "enter")

DeliverSubmit ==
    /\ Running
    /\ InFlight("chatSubmitMsg", 0)
    /\ ChatStep(program, UpdateSubmit(chat, program.cancelled),
                SetToBag({Task("chatSubmitMsg", 0)}), 0, "chatSubmitMsg")

RunStartStream ==
    /\ Running
    /\ InFlight("startStreamCmd", 0)
    /\ program.started < MaxTurns
    /\ LET n == program.started + 1 IN
       ChatStep([program EXCEPT !.started = n],
                startStreamCmd(chat, program.cancelled, n, program.timeout),
                SetToBag({Task("startStreamCmd", 0)}), n, program.last)

RunStreamContinue(n, ok) ==
    /\ Running
    /\ InFlight("StreamContinue", n)
    /\ ChatStep(program, streamContinued(chat, program.cancelled, n, ok),
                SetToBag({Task("StreamContinue", n)}), n, program.last)

RunReceiveStream(n, next, retryable) ==
    /\ Running
    /\ InFlight("receiveStreamCmd", n)
    /\ next \in {"text", "empty"} => program.parts < MaxParts
    /\ ChatStep([program EXCEPT !.parts = IF next \in {"text", "empty"} THEN @ + 1 ELSE @],
                receiveStreamCmd(chat, program.cancelled, n, next, retryable),
                SetToBag({Task("receiveStreamCmd", n)}), n, program.last)

DeliverChunk(n, content) ==
    /\ Running
    /\ InFlight(IF content THEN "chunk" ELSE "emptyChunk", n)
    /\ ChatStep(program, UpdateChunk(chat, program.cancelled, content),
                SetToBag({Task(IF content THEN "chunk" ELSE "emptyChunk", n)}), n,
                "chatStreamChunkMsg")

DeliverDone(n) ==
    /\ Running
    /\ InFlight("chatStreamDoneMsg", n)
    /\ ChatStep(program, UpdateDone(chat, program.cancelled),
                SetToBag({Task("chatStreamDoneMsg", n)}), n, "chatStreamDoneMsg")

DeliverError(n) ==
    /\ Running
    /\ InFlight("errs.Error", n)
    /\ ChatStep(program, UpdateError(chat, program.cancelled),
                SetToBag({Task("errs.Error", n)}), n, "errs.Error")

StreamNext == {"text", "empty", "errorPart", "endErr", "end"}

NextChat ==
    \/ KeyCtrlC
    \/ \E text \in {"", "hi", "/quit"} : KeyEnter(text)
    \/ DeliverSubmit
    \/ RunStartStream
    \/ \E n \in 1..MaxTurns, ok \in BOOLEAN : RunStreamContinue(n, ok)
    \/ \E n \in 1..MaxTurns, next \in StreamNext, retryable \in BOOLEAN :
           RunReceiveStream(n, next, retryable)
    \/ \E n \in 1..MaxTurns, content \in BOOLEAN : DeliverChunk(n, content)
    \/ \E n \in 1..MaxTurns : DeliverDone(n)
    \/ \E n \in 1..MaxTurns : DeliverError(n)

SpecChat == InitChat /\ [][NextChat]_vars

(***************************************************************************)
(* Two processes on one store directory: each has loaded index.jsonl into  *)
(* its own map and counter; every Save and Delete of either appends to the *)
(* one log under the file lock and compacts from the map of its process.   *)
(***************************************************************************)
PeerDB ==
    [conversations |-> peer.conversations, ops |-> peer.ops, index |-> index, torn |-> torn]

\* logs one and two events short of the compaction threshold, one live record
PeerStores ==
    {SaveAll(EmptyStore, Churn(compactMinOps - 1, 1)),
     SaveAll(EmptyStore, Churn(compactMinOps - 2, 1))}

PeerRequests ==
    {Request(IdA, TitleShared, ApiA, ApiA),
     Request(IdB, TitleShared, ApiA, ApiA),
     Request(BulkId(0), TitleShared, ApiA, ApiA)}

PeerDeletes == {IdA, BulkId(0)}

\* both processes have opened the directory
InitPeers ==
    /\ OpenOn(PeerStores)
    /\ ProcsIdle
    /\ CacheIdle
    /\ ChatIdle /\ CompactionIdle /\ YaiIdle
    /\ peer = [opened |-> opened, conversations |-> conversations, ops |-> ops]

\* the second process has made a call that left o
SetPeer(o) ==
    /\ peer' = [peer EXCEPT !.conversations = o.db.conversations, !.ops = o.db.ops]
    /\ index' = o.db.index
    /\ torn' = o.db.torn
    /\ ret' = [NoRet EXCEPT !.err = o.err, !.appended = o.appended,
                            !.compact = o.compact, !.atCompact = o.atCompact]
    /\ ioFailed' = (ioFailed \/ o.err \notin ({"nil"} \cup ValidationErrors))
    /\ steps' = steps + 1
    /\ UNCHANGED <<conversations, ops, opened, procVars, cacheVars, chatVars, compaction, yai>>

\* DB.Save called in the second process
PeerSave(id, title, api, model, now, io) ==
    /\ peer.opened
    /\ steps < MaxSteps
    /\ \E o \in {DoSave(PeerDB, id, title, api, model, now, io, order) :
                    order \in IterOrders((DOMAIN peer.conversations) \cup {id})} :
        /\ SetPeer(o)
        /\ call' = [NoCall EXCEPT !.op = "PeerSave", !.id = id, !.title = title,
                                  !.api = api, !.model = model, !.now = now]

\* DB.Delete called in the second process
PeerDelete(id, io) ==
    /\ peer.opened
    /\ steps < MaxSteps
    /\ \E o \in {DoDelete(PeerDB, id, io, order) :
                    order \in IterOrders((DOMAIN peer.conversations) \ {id})} :
        /\ SetPeer(o)
        /\ call' = [NoCall EXCEPT !.op = "PeerDelete", !.id = id]

NextPeers ==
    \/ \E r \in PeerRequests, now \in 1..MaxTime :
           Save(r.id, r.title, r.api, r.model, now, "ok")
    \/ \E id \in PeerDeletes : Delete(id, "ok")
    \/ \E r \in PeerRequests, now \in 1..MaxTime :
           PeerSave(r.id, r.title, r.api, r.model, now, "ok")
    \/ \E id \in PeerDeletes : PeerDelete(id, "ok")

SpecPeers == InitPeers /\ [][NextPeers]_vars

(***************************************************************************)
(* Save and Delete with the compaction they trigger taken step by step,    *)
(* each step able to fail, and the process able to stop between any two.   *)
(***************************************************************************)
CompactStores ==
    {SaveAll(EmptyStore, Churn(compactMinOps - 1, 1)),
     SaveAll(EmptyStore, Churn(compactMinOps - 1, 2))}

InitCompact ==
    /\ OpenOn(CompactStores)
    /\ ProcsIdle
    /\ CacheIdle
    /\ PeerIdle
    /\ ChatIdle
    /\ CompactionIdle
    /\ YaiIdle

\* no call is inside compactLocked
Between == compaction.at \in {"idle", "done", "failed", "crashed"}

\* DB.Save and DB.Delete up to the call of compactLocked: a is the store
\* with the map changed, o what appendEventLocked left
CallUpToCompaction(a, o) ==
    /\ conversations' = a.conversations
    /\ ops' = o.db.ops
    /\ index' = o.db.index
    /\ torn' = o.db.torn
    /\ ioFailed' = (ioFailed \/ o.err # "nil")
    /\ steps' = steps + 1
    /\ IF o.err = "nil" /\ CompactionDue(o.db)
           THEN /\ ret' = [NoRet EXCEPT !.err = "pending", !.appended = TRUE,
                                        !.compact = "running",
                                        !.atCompact = a.conversations]
                /\ compaction' = [compaction EXCEPT !.at = "Lock", !.pre = o.db.index,
                                                    !.items = CompactItems(a.conversations)]
       ELSE /\ ret' = [NoRet EXCEPT !.err = o.err, !.appended = (o.err = "nil")]
            /\ compaction' = [compaction EXCEPT !.at = "idle", !.pre = <<>>, !.items = <<>>]
    /\ UNCHANGED <<opened, procVars, cacheVars, peer, chatVars, yai>>

SaveStepwise(id, title, api, model, now, io) ==
    /\ Ready
    /\ Between
    /\ LET convo == NewConversation(id, title, now, api, model)
           a == [DB EXCEPT !.conversations = MapPut(conversations, id, convo)]
       IN CallUpToCompaction(a, AppendEventLocked(a, UpsertEvent(convo), io))
    /\ call' = [NoCall EXCEPT !.op = "Save", !.id = id, !.title = title,
                              !.api = api, !.model = model, !.now = now]

DeleteStepwise(id, io) ==
    /\ Ready
    /\ Between
    /\ IF id \in DOMAIN conversations
           THEN LET a == [DB EXCEPT !.conversations = MapDelete(conversations, id)]
                IN CallUpToCompaction(a, AppendEventLocked(a, DeleteEvent(id), io))
       ELSE /\ ret' = NoRet
            /\ steps' = steps + 1
            /\ compaction' = [compaction EXCEPT !.at = "idle", !.pre = <<>>, !.items = <<>>]
            /\ UNCHANGED <<conversations, ops, index, torn, opened, ioFailed,
                           procVars, cacheVars, peer, chatVars, yai>>
    /\ call' = [NoCall EXCEPT !.op = "Delete", !.id = id]

\* the operation after `at` in DB.compactLocked
CompactAfter(at) ==
    CompactOps[(CHOOSE i \in 1..Len(CompactOps) : CompactOps[i] = at) + 1]

\* DB.compactLocked returns err
CompactReturns(err) ==
    /\ ret' = [ret EXCEPT !.err = err, !.compact = IF err = "nil" THEN "done" ELSE "failed"]
    /\ ioFailed' = (ioFailed \/ err # "nil")

\* one operation of DB.compactLocked succeeds
CompactStep ==
    /\ opened
    /\ compaction.at \in {"Lock", "OpenFile", "Sync", "Close"}
    /\ compaction' =
           [compaction EXCEPT
               !.at = CompactAfter(@),
               !.tmp = IF compaction.at = "OpenFile"
                           THEN [exists |-> TRUE, lines |-> <<>>, torn |-> FALSE]
                       ELSE @]
    /\ UNCHANGED <<dbVars, procVars, cacheVars, peer, chatVars, yai>>

\* enc.Encode(event) writes the next line, or there is none left to write
CompactEncode ==
    /\ opened
    /\ compaction.at = "Encode"
    /\ LET n == Len(compaction.tmp.lines) IN
       compaction' =
           IF n < Len(compaction.items)
               THEN [compaction EXCEPT
                        !.tmp.lines = Append(@, Marshal(UpsertEvent(compaction.items[n + 1])))]
           ELSE [compaction EXCEPT !.at = "Sync"]
    /\ UNCHANGED <<dbVars, procVars, cacheVars, peer, chatVars, yai>>

\* os.Rename(tmpPath, c.indexPath), then c.ops = len(c.conversations)
CompactRename ==
    /\ opened
    /\ compaction.at = "Rename"
    /\ index' = compaction.tmp.lines
    /\ torn' = compaction.tmp.torn
    /\ ops' = Cardinality(DOMAIN conversations)
    /\ compaction' = [compaction EXCEPT !.at = "done", !.tmp = NoTmp]
    /\ CompactReturns("nil")
    /\ UNCHANGED <<conversations, opened, call, steps, procVars, cacheVars, peer, chatVars, yai>>

\* a failing compaction that takes the event of the call out of the log
CompactFailsUndoes(partial) ==
    /\ opened
    /\ compaction.at \in {"Lock", "OpenFile", "Encode", "Sync", "Close", "Rename"}
    /\ partial => /\ compaction.at = "Encode"
                  /\ Len(compaction.tmp.lines) < Len(compaction.items)
    /\ compaction' = [compaction EXCEPT !.at = "failed"]
    /\ index' = SubSeq(index, 1, Len(index) - 1)
    /\ CompactReturns(CompactError(compaction.at))
    /\ UNCHANGED <<conversations, ops, torn, opened, call, steps,
                   procVars, cacheVars, peer, chatVars, yai>>

\* the operation DB.compactLocked is at fails: it returns the error and
\* leaves index.jsonl.tmp as it is; a failing Encode may have written part
\* of its line
CompactFails(partial) ==
    /\ opened
    /\ compaction.at \in {"Lock", "OpenFile", "Encode", "Sync", "Close", "Rename"}
    /\ partial => /\ compaction.at = "Encode"
                  /\ Len(compaction.tmp.lines) < Len(compaction.items)
    /\ compaction' = [compaction EXCEPT
                         !.at = "failed",
                         !.tmp.lines = IF partial THEN Append(@, GarbageLine) ELSE @,
                         !.tmp.torn = partial]
    /\ CompactReturns(CompactError(compaction.at))
    /\ UNCHANGED <<conversations, ops, index, torn, opened, call, steps,
                   procVars, cacheVars, peer, chatVars, yai>>

\* the process stops: the handle is gone, the files stay as they are
Crash ==
    /\ opened
    /\ opened' = FALSE
    /\ conversations' = EmptyMap
    /\ ops' = 0
    /\ compaction' = [compaction EXCEPT !.at = IF Between THEN @ ELSE "crashed"]
    /\ call' = [NoCall EXCEPT !.op = "crash"]
    /\ UNCHANGED <<index, torn, ret, ioFailed, steps, procVars, cacheVars, peer, chatVars, yai>>

\* Open on the directory, with whatever index.jsonl.tmp was left there
OpenAgain ==
    /\ ~opened
    /\ Reopen("ok")

NextCompact ==
    \/ \E r \in PeerRequests, now \in 1..MaxTime,
           io \in {"ok", "write", "writePartial", "sync"} :
           SaveStepwise(r.id, r.title, r.api, r.model, now, io)
    \/ \E id \in PeerDeletes, io \in {"ok", "write"} : DeleteStepwise(id, io)
    \/ CompactStep
    \/ CompactEncode
    \/ CompactRename
    \/ \E partial \in BOOLEAN : CompactFails(partial)
    \/ Crash
    \/ OpenAgain

SpecCompact == InitCompact /\ [][NextCompact]_vars

(***************************************************************************)
(* The payload cache used by one caller: each call is one step.            *)
(***************************************************************************)
CacheCall(op, id, p, fail) == [op |-> op, id |-> id, payload |-> p, fail |-> fail]

CacheRet(err, got) == [err |-> err, got |-> got]

InitCache ==
    /\ OpenOn({EmptyStore})
    /\ ProcsIdle
    /\ PeerIdle
    /\ ChatIdle /\ CompactionIdle /\ YaiIdle
    /\ cType \in {ConversationCache, TemporaryCache}
    /\ files \in CacheSeeds(cType)
    /\ wr = [w \in RaceWriters |-> WriterIdle]
    /\ rd = ReaderIdle

CacheStep ==
    /\ steps < MaxCacheSteps
    /\ steps' = steps + 1
    /\ UNCHANGED <<conversations, ops, index, torn, opened, ioFailed, procVars, peer, chatVars, compaction, yai, cType, wr, rd>>

\* Cache.Write(id, writeFn), writeFn writing p
Write(id, p, fail) ==
    /\ CacheStep
    /\ \E o \in {CacheWrite(files, cType, id, p, fail, 0)} :
        /\ files' = o.files
        /\ ret' = CacheRet(o.err, <<>>)
    /\ call' = CacheCall("Write", id, p, fail)

\* Cache.Read(id, readFn)
Read(id, fail) ==
    /\ CacheStep
    /\ \E o \in {CacheRead(files, cType, id, fail)} : ret' = CacheRet(o.err, o.got)
    /\ call' = CacheCall("Read", id, <<>>, fail)
    /\ UNCHANGED files

\* Cache.Delete(id)
Remove(id, fail) ==
    /\ CacheStep
    /\ \E o \in {CacheDelete(files, cType, id, fail)} :
        /\ files' = o.files
        /\ ret' = CacheRet(o.err, <<>>)
    /\ call' = CacheCall("Delete", id, <<>>, fail)

NextCache ==
    \/ \E id \in CacheIds, p \in Payloads, fail \in {"none"} \cup WriteFailures :
           Write(id, p, fail)
    \/ \E id \in CacheIds, fail \in {"none", "Open", "readFn"} : Read(id, fail)
    \/ \E id \in CacheIds, fail \in {"none", "Remove"} : Remove(id, fail)

SpecCache == InitCache /\ [][NextCache]_vars

(***************************************************************************)
(* The payload cache used by several callers at once: writers of one id,   *)
(* each making one Write step by step, and a reader of that id.            *)
(***************************************************************************)
RacePath == filePath(cType, RaceId)

\* a writer that streams into the file of the id itself
WriteTargetInPlace(w) == RacePath

\* the file writeFn of writer w streams into: its temporary file
WriteTarget(w) == TempPath(RacePath.dir, w)

InitRace ==
    /\ OpenOn({EmptyStore})
    /\ ProcsIdle
    /\ PeerIdle
    /\ ChatIdle /\ CompactionIdle /\ YaiIdle
    /\ cType \in {ConversationCache, TemporaryCache}
    /\ files \in {NoFiles, PutFile(NoFiles, filePath(cType, RaceId), Previous)}
    /\ wr = [w \in RaceWriters |-> WriterIdle]
    /\ rd = ReaderIdle

WriterGoes(w, at, err) == wr' = [wr EXCEPT ![w].at = at, ![w].err = err]

\* Write up to os.CreateTemp
WBegin(w, p, fail) ==
    /\ wr[w].at = "idle"
    /\ IF fail = "none"
          THEN /\ files' = PutFile(files, WriteTarget(w), <<>>)
               /\ wr' = [wr EXCEPT ![w] = [WriterIdle EXCEPT !.at = "writeFn", !.id = RaceId,
                                                             !.payload = p]]
          ELSE /\ wr' = [wr EXCEPT ![w] = [WriterIdle EXCEPT !.at = "done", !.id = RaceId,
                                                             !.payload = p, !.err = fail]]
               /\ UNCHANGED files
    /\ UNCHANGED <<dbVars, procVars, peer, chatVars, compaction, yai, cType, rd>>

\* writeFn(tmp): one more byte written, the return after the last byte, or
\* a failure
WWriteFn(w, ok) ==
    /\ wr[w].at = "writeFn"
    /\ IF ~ok THEN WriterGoes(w, "cleanup", "writeFn") /\ UNCHANGED files
       ELSE IF wr[w].n < Len(wr[w].payload)
           THEN /\ files' = PutFile(files, WriteTarget(w),
                                    Append(files[WriteTarget(w)],
                                           wr[w].payload[wr[w].n + 1]))
                /\ wr' = [wr EXCEPT ![w].n = @ + 1]
       ELSE WriterGoes(w, "Sync", "nil") /\ UNCHANGED files
    /\ UNCHANGED <<dbVars, procVars, peer, chatVars, compaction, yai, cType, rd>>

\* tmp.Sync(), then tmp.Close()
WSyncClose(w, ok) ==
    /\ wr[w].at \in {"Sync", "Close"}
    /\ IF ok THEN WriterGoes(w, IF wr[w].at = "Sync" THEN "Close" ELSE "Rename", "nil")
       ELSE WriterGoes(w, "cleanup", wr[w].at)
    /\ UNCHANGED <<dbVars, procVars, peer, chatVars, compaction, yai, cType, files, rd>>

\* os.Rename(tmpName, path)
WRename(w, ok) ==
    /\ wr[w].at = "Rename"
    /\ IF ok THEN /\ files' = RenameFile(files, WriteTarget(w), RacePath)
                  /\ wr' = [wr EXCEPT ![w].at = "cleanup", ![w].renamed = TRUE]
       ELSE WriterGoes(w, "cleanup", "Rename") /\ UNCHANGED files
    /\ UNCHANGED <<dbVars, procVars, peer, chatVars, compaction, yai, cType, rd>>

\* the deferred tmp.Close() and os.Remove(tmpName), and the return
WCleanup(w) ==
    /\ wr[w].at = "cleanup"
    /\ files' = IF Exists(files, WriteTarget(w)) THEN RemoveFile(files, WriteTarget(w))
                ELSE files
    /\ wr' = [wr EXCEPT ![w].at = "done"]
    /\ UNCHANGED <<dbVars, procVars, peer, chatVars, compaction, yai, cType, rd>>

\* Read up to os.Open: the reader holds the file it opened
ROpen(ok) ==
    /\ rd.at = "idle"
    /\ \E h \in {OpenForRead(files, cType, RaceId)} :
        rd' = IF ok /\ h # <<>> THEN [at |-> "readFn", fh |-> h, got |-> <<>>, err |-> "nil"]
              ELSE [at |-> "idle", fh |-> <<>>, got |-> <<>>, err |-> "open"]
    /\ UNCHANGED <<dbVars, procVars, peer, chatVars, compaction, yai, cType, files, wr>>

\* readFn(file) and the return
RReadFn ==
    /\ rd.at = "readFn"
    /\ rd' = [at |-> "idle", fh |-> <<>>, got |-> rd.fh, err |-> "nil"]
    /\ UNCHANGED <<dbVars, procVars, peer, chatVars, compaction, yai, cType, files, wr>>

NextRace ==
    \/ \E w \in RaceWriters, p \in Payloads, fail \in {"none", "MkdirAll", "CreateTemp"} :
           WBegin(w, p, fail)
    \/ \E w \in RaceWriters, ok \in BOOLEAN : WWriteFn(w, ok)
    \/ \E w \in RaceWriters, ok \in BOOLEAN : WSyncClose(w, ok)
    \/ \E w \in RaceWriters, ok \in BOOLEAN : WRename(w, ok)
    \/ \E w \in RaceWriters : WCleanup(w)
    \/ \E ok \in BOOLEAN : ROpen(ok)
    \/ RReadFn

SpecRace == InitRace /\ [][NextRace]_vars

(***************************************************************************)
(* The calls of the store as sequences of steps, for several callers of    *)
(* one directory.  A caller is at Loc(sec, step): between calls ("idle"), at   *)
(* a step on DB.mu ("mu"), at the test of compactIfNeededLocked, or in one  *)
(* of the three sections that work on the files: "load" (DB.load), "append" *)
(* (DB.appendEventLocked) and "compact" (DB.compactLocked).  A section is   *)
(* the step "Lock", the steps on the file, and "Unlock" (the deferred       *)
(* file.Close and lock.Unlock).                                             *)
(***************************************************************************)
Sections == {"load", "append", "compact"}

\* the steps of a section on index.jsonl or index.jsonl.tmp, in order
StepsOf(sec) ==
    IF sec = "load" THEN <<"Open", "Scan">>
    ELSE IF sec = "append" THEN <<"OpenFile", "Write", "Sync">>
    ELSE <<"OpenFile", "Encode", "Sync", "Close", "Rename">>

\* the places where a caller has taken the file lock and not yet released it
FileLocations ==
    {Loc(sec, step) : sec \in Sections,
                     step \in {"Open", "Scan", "OpenFile", "Write", "Encode", "Sync",
                               "Close", "Rename", "Unlock"}}

WriteOps == {"Save", "Delete"}

ReadOps == {"Find", "List", "Completions"}

\* the step after `step` in its section
StepAfter(sec, step) ==
    LET seq == StepsOf(sec)
        i == CHOOSE k \in 1..Len(seq) : seq[k] = step
    IN IF i = Len(seq) THEN "Unlock" ELSE seq[i + 1]

\* where a caller goes when its section is over
AfterSection(sec, failed) ==
    IF sec = "load" THEN Idle
    ELSE IF sec = "append" /\ ~failed THEN Loc("compactIfNeeded", "")
    ELSE Loc("mu", "Unlock")

\* a Lock that does not look at the holders
FlockFreeAlways(c) == TRUE

\* flock.Lock() can take the lock: no other open file holds it
FlockFree(c) == fileLock = {}

Goto(c, at) == pc' = [pc EXCEPT ![c] = at]

\* a call starts; Save and Delete return at once on a blank id or title
CallStart(c, op, valid) ==
    /\ pc[c] = Idle
    /\ cop' = [cop EXCEPT ![c] = op]
    /\ perr' = [perr EXCEPT ![c] = (op \in WriteOps /\ ~valid)]
    /\ Goto(c, IF op = "Open" THEN Loc("load", "Lock")
                ELSE IF op \in ReadOps THEN Loc("mu", "RLock")
                ELSE IF valid THEN Loc("mu", "Lock")
                ELSE Idle)
    /\ UNCHANGED <<mu, fileLock, dbVars, cacheVars, peer, chatVars, compaction, yai>>

\* c.mu.Lock(); Delete goes straight to the unlock when the id is absent
MuLock(c, present) ==
    /\ pc[c] = Loc("mu", "Lock")
    /\ mu[ProcessOf(c)] = MuFree
    /\ mu' = [mu EXCEPT ![ProcessOf(c)].w = c]
    /\ Goto(c, IF cop[c] = "Delete" /\ ~present THEN Loc("mu", "Unlock")
                ELSE Loc("append", "Lock"))
    /\ UNCHANGED <<cop, perr, fileLock, dbVars, cacheVars, peer, chatVars, compaction, yai>>

\* the deferred c.mu.Unlock(), and the return
MuUnlock(c) ==
    /\ pc[c] = Loc("mu", "Unlock")
    /\ mu' = [mu EXCEPT ![ProcessOf(c)].w = NoOne]
    /\ Goto(c, Idle)
    /\ UNCHANGED <<cop, perr, fileLock, dbVars, cacheVars, peer, chatVars, compaction, yai>>

\* c.mu.RLock() of Find, List and Completions
MuRLock(c) ==
    /\ pc[c] = Loc("mu", "RLock")
    /\ mu[ProcessOf(c)].w = NoOne
    /\ mu' = [mu EXCEPT ![ProcessOf(c)].r = @ \cup {c}]
    /\ Goto(c, Loc("mu", "RUnlock"))
    /\ UNCHANGED <<cop, perr, fileLock, dbVars, cacheVars, peer, chatVars, compaction, yai>>

\* the read of the map, c.mu.RUnlock(), and the return
MuRUnlock(c) ==
    /\ pc[c] = Loc("mu", "RUnlock")
    /\ mu' = [mu EXCEPT ![ProcessOf(c)].r = @ \ {c}]
    /\ Goto(c, Idle)
    /\ UNCHANGED <<cop, perr, fileLock, dbVars, cacheVars, peer, chatVars, compaction, yai>>

\* c.lock.Lock(): it returns once the lock is taken, waiting while another
\* open file holds it, or it returns an error (the lock file cannot be
\* opened, the system call fails)
FlockLock(c, ok) ==
    /\ pc[c].sec \in Sections
    /\ pc[c].step = "Lock"
    /\ IF ok
          THEN /\ FlockFree(c)
               /\ fileLock' = fileLock \cup {c}
               /\ Goto(c, Loc(pc[c].sec, StepsOf(pc[c].sec)[1]))
               /\ UNCHANGED perr
          ELSE /\ perr' = [perr EXCEPT ![c] = TRUE]
               /\ Goto(c, AfterSection(pc[c].sec, TRUE))
               /\ UNCHANGED fileLock
    /\ UNCHANGED <<cop, mu, dbVars, cacheVars, peer, chatVars, compaction, yai>>

\* one step on index.jsonl or index.jsonl.tmp: it succeeds, or it fails and
\* the section is left through its deferred calls; DB.load also leaves when
\* there is no index.jsonl
FileStep(c, io) ==
    /\ pc[c].sec \in Sections
    /\ pc[c].step \notin {"Lock", "Unlock"}
    /\ io = "missing" => pc[c] = Loc("load", "Open")
    /\ perr' = [perr EXCEPT ![c] = (io = "fail")]
    /\ Goto(c, Loc(pc[c].sec, IF io = "ok" THEN StepAfter(pc[c].sec, pc[c].step)
                              ELSE "Unlock"))
    /\ UNCHANGED <<cop, mu, fileLock, dbVars, cacheVars, peer, chatVars, compaction, yai>>

\* the deferred file.Close() and c.lock.Unlock()
FlockUnlock(c) ==
    /\ pc[c].sec \in Sections
    /\ pc[c].step = "Unlock"
    /\ fileLock' = fileLock \ {c}
    /\ Goto(c, AfterSection(pc[c].sec, perr[c]))
    /\ UNCHANGED <<cop, perr, mu, dbVars, cacheVars, peer, chatVars, compaction, yai>>

\* the test of compactIfNeededLocked on the counter and the map
CompactIfNeeded(c, needed) ==
    /\ pc[c] = Loc("compactIfNeeded", "")
    /\ Goto(c, IF needed THEN Loc("compact", "Lock") ELSE Loc("mu", "Unlock"))
    /\ UNCHANGED <<cop, perr, mu, fileLock, dbVars, cacheVars, peer, chatVars, compaction, yai>>

\* a step caller c takes inside a call when it can: each of its steps but
\* the failure of flock.Lock(), which nothing makes happen while it waits
StepOf(c) ==
    \/ \E present \in BOOLEAN : MuLock(c, present)
    \/ MuUnlock(c)
    \/ MuRLock(c)
    \/ MuRUnlock(c)
    \/ FlockLock(c, TRUE)
    \/ \E io \in {"ok", "fail", "missing"} : FileStep(c, io)
    \/ FlockUnlock(c)
    \/ \E needed \in BOOLEAN : CompactIfNeeded(c, needed)

InitProcs == InitOn({EmptyStore})

NextProcs ==
    \/ \E c \in Callers, op \in {"Open"} \cup WriteOps \cup ReadOps, valid \in BOOLEAN :
           CallStart(c, op, valid)
    \/ \E c \in Callers, present \in BOOLEAN : MuLock(c, present)
    \/ \E c \in Callers : MuUnlock(c)
    \/ \E c \in Callers : MuRLock(c)
    \/ \E c \in Callers : MuRUnlock(c)
    \/ \E c \in Callers, ok \in BOOLEAN : FlockLock(c, ok)
    \/ \E c \in Callers, io \in {"ok", "fail", "missing"} : FileStep(c, io)
    \/ \E c \in Callers : FlockUnlock(c)
    \/ \E c \in Callers, needed \in BOOLEAN : CompactIfNeeded(c, needed)

\* The threads of process 1 keep running: a thread that can take a step
\* again and again takes one.  Nothing is assumed of the other process,
\* which may be stopped at any point.
SpecProcs ==
    /\ InitProcs
    /\ [][NextProcs]_vars
    /\ \A c \in {k \in Callers : ProcessOf(k) = 1} : SF_vars(StepOf(c))

(***************************************************************************)
(* Several threads of one process calling Save and Delete on one handle.   *)
(* A thread takes c.mu, changes the map, appends its event, runs the       *)
(* compaction test and the compaction, and releases c.mu on return.        *)
(***************************************************************************)
Threads == {c \in Callers : ProcessOf(c) = 1}

ThreadCalls ==
    {[op |-> "Save", id |-> r.id, title |-> r.title, api |-> r.api, model |-> r.model,
      now |-> now] : r \in PeerRequests, now \in 1..MaxTime}
    \cup {[op |-> "Delete", id |-> id, title |-> <<>>, api |-> <<>>, model |-> <<>>,
           now |-> 0] : id \in PeerDeletes}

InitThreads == InitCompact

\* the thread has taken c.mu and not yet released it
Holding(c) == pc[c].sec \in {"map", "append", "compactIfNeeded", "unlock"}

\* c.mu.Lock() of another thread may return
MuAvailable(c) == mu[ProcessOf(c)] = MuFree

\* the event a call appends
EventOf(q) ==
    IF q.op = "Save"
        THEN UpsertEvent(NewConversation(q.id, q.title, q.now, q.api, q.model))
    ELSE DeleteEvent(q.id)

\* a thread calls Save or Delete; the arguments pass the checks
ThreadCall(c, q) ==
    /\ steps < MaxSteps
    /\ opened
    /\ pc[c] = Idle
    /\ cop' = [cop EXCEPT ![c] = q]
    /\ Goto(c, Loc("mu", "Lock"))
    /\ steps' = steps + 1
    /\ UNCHANGED <<conversations, ops, index, torn, opened, call, ret, ioFailed,
                   perr, mu, fileLock, cacheVars, peer, chatVars, compaction, yai>>

\* c.mu.Lock()
ThreadLock(c) ==
    /\ pc[c] = Loc("mu", "Lock")
    /\ MuAvailable(c)
    /\ mu' = [mu EXCEPT ![ProcessOf(c)].w = c]
    /\ Goto(c, Loc("map", ""))
    /\ UNCHANGED <<cop, perr, fileLock, dbVars, cacheVars, peer, chatVars, compaction, yai>>

\* c.conversations[id] = convo; or the test of Delete and delete(c.conversations, id)
ThreadMap(c) ==
    /\ pc[c] = Loc("map", "")
    /\ LET q == cop[c] IN
       IF q.op = "Delete" /\ q.id \notin DOMAIN conversations
           THEN /\ Goto(c, Loc("unlock", ""))
                /\ perr' = [perr EXCEPT ![c] = FALSE]
                /\ UNCHANGED conversations
       ELSE /\ conversations' =
                   IF q.op = "Save"
                       THEN MapPut(conversations, q.id,
                                   NewConversation(q.id, q.title, q.now, q.api, q.model))
                   ELSE MapDelete(conversations, q.id)
            /\ Goto(c, Loc("append", ""))
            /\ UNCHANGED perr
    /\ UNCHANGED <<ops, index, torn, opened, call, ret, ioFailed, steps,
                   cop, mu, fileLock, cacheVars, peer, chatVars, compaction, yai>>

\* c.appendEventLocked(evt)
ThreadAppend(c, io) ==
    /\ pc[c] = Loc("append", "")
    /\ \E o \in {AppendEventLocked(DB, EventOf(cop[c]), io)} :
        /\ SetDB(o.db)
        /\ perr' = [perr EXCEPT ![c] = (o.err # "nil")]
        /\ ioFailed' = (ioFailed \/ o.err # "nil")
        /\ Goto(c, IF o.err = "nil" THEN Loc("compactIfNeeded", "") ELSE Loc("unlock", ""))
    /\ call' = [NoCall EXCEPT !.op = cop[c].op, !.id = cop[c].id, !.title = cop[c].title,
                              !.api = cop[c].api, !.model = cop[c].model,
                              !.now = cop[c].now]
    /\ UNCHANGED <<opened, ret, steps, cop, mu, fileLock, cacheVars, peer, chatVars,
                   compaction, yai>>

\* c.compactIfNeededLocked()
ThreadCompact(c, io) ==
    /\ pc[c] = Loc("compactIfNeeded", "")
    /\ \E o \in {CompactIfNeededLocked(DB, io, order) :
                    order \in IterOrders(DOMAIN conversations)} :
        /\ SetDB(o.db)
        /\ perr' = [perr EXCEPT ![c] = (o.err # "nil")]
        /\ ioFailed' = (ioFailed \/ o.err # "nil")
        /\ ret' = [NoRet EXCEPT !.err = o.err, !.appended = TRUE, !.compact = o.compact]
    /\ Goto(c, Loc("unlock", ""))
    /\ UNCHANGED <<opened, call, steps, cop, mu, fileLock, cacheVars, peer, chatVars,
                   compaction, yai>>

\* the deferred c.mu.Unlock(), and the return
ThreadUnlock(c) ==
    /\ pc[c] = Loc("unlock", "")
    /\ mu' = [mu EXCEPT ![ProcessOf(c)].w = NoOne]
    /\ Goto(c, Idle)
    /\ UNCHANGED <<cop, perr, fileLock, dbVars, cacheVars, peer, chatVars, compaction, yai>>

NextThreads ==
    \/ \E c \in Threads, q \in ThreadCalls : ThreadCall(c, q)
    \/ \E c \in Threads : ThreadLock(c)
    \/ \E c \in Threads : ThreadMap(c)
    \/ \E c \in Threads, io \in {"ok", "write"} : ThreadAppend(c, io)
    \/ \E c \in Threads, io \in {"ok", "compact"} : ThreadCompact(c, io)
    \/ \E c \in Threads : ThreadUnlock(c)

SpecThreads == InitThreads /\ [][NextThreads]_vars

(***************************************************************************)
(* One-shot mode: tui.Yai.  One command is in flight at a time: the read   *)
(* of stdin, then for each request the start of the stream and the reads   *)
(* of its parts, each handing one message to Update.                       *)
(***************************************************************************)
\* what is in flight: a command about to run or a message about to be
\* delivered, with the content it carries ("", "ws" for white space only,
\* "text")
YaiTask(kind, content) == [kind |-> kind, content |-> content]

NoTask == YaiTask("none", "")

\* removeWhitespace
removeWhitespace(s) == IF s = "ws" THEN "" ELSE s

\* a retry that is granted once more than MaxRetries allows
retryOneMore(y, content) ==
    LET r == [y EXCEPT !.retries = @ + 1] IN
    IF r.retries > r.MaxRetries THEN [r EXCEPT !.inflight = YaiTask("errs.Error", "")]
    ELSE [r EXCEPT !.inflight = YaiTask("completionInput", content)]

\* Yai.retry
retry(y, content) ==
    LET r == [y EXCEPT !.retries = @ + 1] IN
    IF r.retries >= r.MaxRetries THEN [r EXCEPT !.inflight = YaiTask("errs.Error", "")]
    ELSE [r EXCEPT !.inflight = YaiTask("completionInput", content)]

\* Yai.handleStreamError; action is what agent.ActionForStreamError decides:
\* a retry with the prompt, a retry with a prompt cut down (to white space
\* at worst), or no retry
YaiHandleStreamError(y, action) ==
    IF action = "retry" THEN retry(y, y.Input)
    ELSE IF action = "retryCut" THEN retry(y, IF y.Input = "" THEN "" ELSE "ws")
    ELSE [y EXCEPT !.inflight = YaiTask("errs.Error", "")]

\* Yai.Update, case completionInput
YaiUpdateInput(y, content) ==
    LET in == IF content # "" THEN removeWhitespace(content) ELSE y.Input IN
    IF in = "" /\ ~y.Prefix
        THEN [y EXCEPT !.Input = in, !.quitting = TRUE, !.inflight = NoTask]
    ELSE [y EXCEPT !.Input = in, !.state = "requestState",
                   !.inflight = YaiTask("startCompletionCmd", content)]

\* Yai.Update, case completionOutput
YaiUpdateOutput(y, kind) ==
    IF kind = "done"
        THEN [y EXCEPT !.state = "doneState", !.quitting = TRUE, !.inflight = NoTask]
    ELSE [y EXCEPT !.state = IF kind = "content" THEN "responseState" ELSE @,
                   !.inflight = YaiTask("receiveCompletionStreamCmd", "")]

\* Yai.Update, cases errs.Error and error
YaiUpdateError(y) ==
    [y EXCEPT !.Error = TRUE, !.state = "errorState", !.quitting = TRUE,
              !.inflight = NoTask]

\* Yai.Update, case tea.KeyMsg "q" and "ctrl+c"
YaiUpdateKey(y) == [y EXCEPT !.state = "doneState", !.quitting = TRUE]

\* Yai.startCompletionCmd: the request is sent; agent.Stream gives a stream
\* or an error
startCompletionCmd(y, ok) ==
    [y EXCEPT !.requests = @ + 1,
              !.inflight = IF ok THEN YaiTask("receiveCompletionStreamCmd", "")
                           ELSE YaiTask("errs.Error", "")]

\* Yai.receiveCompletionStreamCmd; `next` is what the stream gives
receiveCompletionStreamCmd(y, next, action) ==
    IF next \in {"text", "tools"} THEN [y EXCEPT !.inflight = YaiTask("content", ""),
                                                 !.parts = @ + 1]
    ELSE IF next = "empty" THEN [y EXCEPT !.inflight = YaiTask("noContent", ""),
                                          !.parts = @ + 1]
    ELSE IF next \in {"errorPart", "endErr"} THEN YaiHandleStreamError(y, action)
    ELSE [y EXCEPT !.inflight = YaiTask("done", "")]

InitYai ==
    /\ OpenOn({EmptyStore})
    /\ ProcsIdle
    /\ CacheIdle
    /\ PeerIdle
    /\ ChatIdle
    /\ CompactionIdle
    /\ \E prefix \in BOOLEAN, max \in 0..MaxRetries :
           yai = [NewYai EXCEPT !.Prefix = prefix, !.MaxRetries = max,
                                !.inflight = YaiTask("readStdinCmd", "")]

YaiStep(y) ==
    /\ yai' = y
    /\ UNCHANGED <<dbVars, procVars, cacheVars, peer, chatVars, compaction>>

\* a command runs
YaiCommand(kind) == yai.inflight.kind = kind

\* a message reaches Update, which the program calls until it has quit
YaiMessage(kind) == ~yai.quit /\ yai.inflight.kind = kind

\* Yai.readStdinCmd
YReadStdin(content) ==
    /\ YaiCommand("readStdinCmd")
    /\ YaiStep([yai EXCEPT !.inflight = YaiTask("completionInput", content)])

YDeliverInput ==
    /\ YaiMessage("completionInput")
    /\ YaiStep(YaiUpdateInput(yai, yai.inflight.content))

YStartCompletion(ok) ==
    /\ YaiCommand("startCompletionCmd")
    /\ YaiStep(startCompletionCmd(yai, ok))

YReceive(next, action) ==
    /\ YaiCommand("receiveCompletionStreamCmd")
    /\ next \in {"text", "tools", "empty"} => yai.parts < MaxParts
    /\ YaiStep(receiveCompletionStreamCmd(yai, next, action))

YDeliverOutput(kind) ==
    /\ YaiMessage(kind)
    /\ kind \in {"content", "noContent", "done"}
    /\ YaiStep(YaiUpdateOutput(yai, kind))

YDeliverError ==
    /\ YaiMessage("errs.Error")
    /\ YaiStep(YaiUpdateError(yai))

YKeyQuit ==
    /\ ~yai.quit
    /\ yai.keys < MaxKeys
    /\ YaiStep([YaiUpdateKey(yai) EXCEPT !.keys = @ + 1])

\* Yai.quit: tea.Quit() ends the program; what is in flight is dropped
YQuit ==
    /\ yai.quitting
    /\ ~yai.quit
    /\ YaiStep([yai EXCEPT !.quit = TRUE])

NextYai ==
    \/ \E content \in {"", "ws", "text"} : YReadStdin(content)
    \/ YDeliverInput
    \/ \E ok \in BOOLEAN : YStartCompletion(ok)
    \/ \E next \in {"text", "tools", "empty", "errorPart", "endErr", "end"},
          action \in {"retry", "retryCut", "fail"} : YReceive(next, action)
    \/ \E kind \in {"content", "noContent", "done"} : YDeliverOutput(kind)
    \/ YDeliverError
    \/ YKeyQuit
    \/ YQuit

\* the program keeps running its command and handing its message to Update
SpecYai == InitYai /\ [][NextYai]_vars /\ WF_vars(NextYai)

(***************************************************************************)
(* Properties.                                                              *)
(***************************************************************************)
Live == DOMAIN conversations

Records == {conversations[k] : k \in Live}

\* s is empty or only white space
IsBlank(s) == \A i \in 1..Len(s) : s[i] \in {9, 10, 11, 12, 13, 32}

\* p starts s, byte for byte
StartsWith(s, p) == \E k \in 0..Len(s) : SubSeq(s, 1, k) = p

\* the step is a call of Save or Delete that got past the checks of its
\* arguments and, for Delete, found the id
Mutating ==
    /\ call'.op \in {"Save", "Delete"}
    /\ steps' = steps + 1
    /\ ~IsBlank(call'.id)
    /\ call'.op = "Save" => ~IsBlank(call'.title)
    /\ call'.op = "Delete" => call'.id \in Live

\* the record a Save call stores
Saved(c) == [ID |-> c.id, Title |-> c.title, UpdatedAt |-> c.now, API |-> c.api,
             Model |-> c.model]

\* C1: with no I/O failure, replaying index.jsonl from an empty map gives
\* exactly the in-memory map, so Close and Open bring back the same records.
C1_ReplayEqualsMap ==
    (opened /\ ~ioFailed) =>
        \E l \in {Load(index)} : l.err = "nil" /\ l.conversations = conversations

\* C2: a Save that returns no error has appended its Upsert event; a Save
\* whose append fails returns an error, with the new record in the map and
\* the counter as it was.
C2_SaveAppendsOrFails ==
    [][(Mutating /\ call'.op = "Save") =>
          /\ ret'.err = "nil" => ret'.appended
          /\ (ret'.appended /\ ret'.compact = "none") =>
                /\ ops' = ops + 1
                /\ ~torn => index' = Append(index, Marshal(UpsertEvent(Saved(call'))))
          /\ ret'.compact = "done" =>
                \E i \in 1..Len(index') : index'[i] = Marshal(UpsertEvent(Saved(call')))
          /\ ~ret'.appended =>
                /\ ret'.err # "nil"
                /\ call'.id \in DOMAIN conversations'
                /\ conversations'[call'.id] = Saved(call')
                /\ ops' = ops]_vars

C2_Witness ==
    /\ call.op = "Save"
    /\ ret.err = "sync index"
    /\ call.id \in Live
    /\ conversations[call.id] = Saved(call)

\* C3: Save with a blank id or a blank title returns an error and leaves the
\* map, the counter and the log as they were.
C3_BlankSaveChangesNothing ==
    [][(call'.op = "Save" /\ steps' = steps + 1
            /\ (IsBlank(call'.id) \/ IsBlank(call'.title))) =>
          /\ ret'.err # "nil"
          /\ UNCHANGED <<conversations, ops, index, torn>>]_vars

C3_Witness ==
    /\ call.op = "Save"
    /\ call.title = <<32, 9>>
    /\ ret.err = "empty title"
    /\ Live # {}

\* C4: a compaction leaves the map as it was when it started, and the log it
\* writes holds one Upsert line per live id, carrying that record unchanged,
\* and nothing else.
C4_CompactionKeepsRecords ==
    ret.compact = "done" =>
        /\ conversations = ret.atCompact
        /\ Len(index) = Cardinality(Live)
        /\ \A k \in Live :
              \E i \in 1..Len(index) :
                  /\ index[i].kind = "json"
                  /\ index[i].evt.Op = "upsert"
                  /\ index[i].evt.Conversation = <<conversations[k]>>

\* the counter after the append of the step, and the live records then
CounterAfterAppend == ops + 1

LiveAfterAppend == Cardinality(DOMAIN conversations')

\* the step left the lines that were in the log in place
LogNotRewritten ==
    /\ Len(index') >= Len(index)
    /\ SubSeq(index', 1, Len(index)) = index

\* C5 as amended: after a successful append a compaction runs exactly when
\* the counter is at least compactMinOps (256 included) and at least
\* compactScaleFactor times the number of live records; in every other case
\* the log is not rewritten.
C5_CompactionTrigger ==
    [][(call'.op \in {"Save", "Delete"} /\ steps' = steps + 1) =>
          /\ ret'.appended =>
                (ret'.compact # "none" <=>
                    /\ CounterAfterAppend >= compactMinOps
                    /\ CounterAfterAppend >= compactScaleFactor * LiveAfterAppend)
          /\ ~ret'.appended => ret'.compact = "none"
          /\ ret'.compact # "done" => LogNotRewritten]_vars

\* C5 as claimed: the counter must exceed 256.
C5_TriggerAbove256 ==
    [][(call'.op \in {"Save", "Delete"} /\ steps' = steps + 1 /\ ret'.appended) =>
          (ret'.compact # "none" <=>
              /\ CounterAfterAppend > compactMinOps
              /\ CounterAfterAppend >= compactScaleFactor * LiveAfterAppend)]_vars

\* a compaction at a counter of exactly compactScaleFactor times the live
\* records: two Saves of stored ids on the log of 258 events and 65 records
C5_Witness ==
    /\ steps = 2
    /\ call.op = "Save"
    /\ ret.compact = "done"
    /\ Cardinality(Live) = DenseLive
    /\ ops = DenseLive

\* the records Find(in) is to choose among when in has at least 4 characters
Matching(in) ==
    {k \in Live : StartsWith(k, in) \/ conversations[k].Title = in}

\* the result of Find is decided by the set S of matching ids
FindDecidedBy(S) ==
    /\ S = {} => (ret.err = "ErrNoMatches" /\ ret.found = <<>>)
    /\ Cardinality(S) > 1 => (ret.err = "ErrManyMatches" /\ ret.found = <<>>)
    /\ \A k \in S : S = {k} => (ret.err = "nil" /\ ret.found = <<conversations[k]>>)

\* C6: Find with a query of at least 4 characters returns ErrNoMatches for
\* no match, ErrManyMatches for several, and the record for exactly one.
C6_FindByPrefixOrTitle ==
    (call.op = "Find" /\ RuneCount(call.in) >= 4) => FindDecidedBy(Matching(call.in))

\* a record matching by id and by title counts once
C6_Witness ==
    /\ call.op = "Find"
    /\ call.in = TitleShared
    /\ ret.err = "nil"
    /\ ret.found = <<conversations[IdA]>>
    /\ conversations[IdA].Title = TitleShared

TitleMatching(in) == {k \in Live : conversations[k].Title = in}

\* C7 as amended: Find with a query shorter than 4 bytes matches by exact
\* title only.
C7_ShortQueryTitleOnly ==
    (call.op = "Find" /\ Len(call.in) < 4) => FindDecidedBy(TitleMatching(call.in))

\* C7 as claimed: shorter than 4 characters.
C7_ShortInCharacters ==
    (call.op = "Find" /\ RuneCount(call.in) < 4) => FindDecidedBy(TitleMatching(call.in))

\* "b00" finds nothing in a store that holds the id "b000"
C7_Witness ==
    /\ call.op = "Find"
    /\ call.in = <<98, 48, 48>>
    /\ BulkId(0) \in Live
    /\ ret.err = "ErrNoMatches"

\* C8: a successful Save of a stored id replaces that record and changes no
\* other; the ids stay the same.
C8_SaveUpdatesInPlace ==
    [][(Mutating /\ call'.op = "Save" /\ ret'.err = "nil" /\ call'.id \in Live) =>
          /\ DOMAIN conversations' = Live
          /\ conversations'[call'.id] = Saved(call')
          /\ \A k \in Live \ {call'.id} : conversations'[k] = conversations[k]]_vars

\* the first call on a store of two records saved one of them anew
C8_Witness ==
    /\ steps = 1
    /\ call.op = "Save"
    /\ call.id = IdA
    /\ call.title = TitleRaw
    /\ ret.err = "nil"
    /\ Cardinality(Live) = 2
    /\ conversations[IdA] = Saved(call)

\* a comes before b in List
ListedBefore(a, b) ==
    \/ a.UpdatedAt > b.UpdatedAt
    \/ (a.UpdatedAt = b.UpdatedAt /\ StrLess(a.ID, b.ID))

\* C9: List returns every live record once, by updated_at descending and id
\* ascending, whatever the order the map is visited in.
C9_ListSorted ==
    call.op = "List" =>
        /\ Len(ret.list) = Cardinality(Live)
        /\ {ret.list[i] : i \in 1..Len(ret.list)} = Records
        /\ \A i, j \in 1..Len(ret.list) : i < j => ListedBefore(ret.list[i], ret.list[j])
        /\ \A order \in IterOrders(Live) : DoList(conversations, order) = ret.list

C9_Witness ==
    /\ call.op = "List"
    /\ Len(ret.list) >= 2
    /\ ret.list[1].UpdatedAt = ret.list[2].UpdatedAt

\* r is the record List puts first
IsHead(r) ==
    /\ r \in Records
    /\ \A q \in Records : q = r \/ ListedBefore(r, q)

\* C10: FindHEAD returns ErrNoMatches exactly when the map is empty, and the
\* first record of List otherwise; after a successful Save at a time later
\* than every other record's, that is the saved record.
C10_FindHEAD ==
    /\ [](call.op = "FindHEAD" =>
            /\ ret.err = "ErrNoMatches" <=> Live = {}
            /\ Live # {} => (ret.err = "nil" /\ Len(ret.found) = 1 /\ IsHead(ret.found[1])))
    /\ [][(/\ call.op = "Save"
           /\ ret.err = "nil"
           /\ \A k \in Live \ {call.id} : conversations[k].UpdatedAt < call.now
           /\ call'.op = "FindHEAD") =>
             ret'.found = <<Saved(call)>>]_vars

\* of two records of the same time the one with the smaller id is the head
C10_Witness ==
    /\ call.op = "FindHEAD"
    /\ IdA \in Live
    /\ IdB \in Live
    /\ conversations[IdA].UpdatedAt = conversations[IdB].UpdatedAt
    /\ \A k \in Live : conversations[k].UpdatedAt <= conversations[IdA].UpdatedAt
    /\ ret.found = <<conversations[IdA]>>

\* a Delete that found its id and returned no error
DeleteSucceeded == call.op = "Delete" /\ ret.err = "nil" /\ ret.appended

\* the step is a successful Delete of an id that was present
DeletesPresent ==
    /\ Mutating
    /\ call'.op = "Delete"
    /\ ret'.err = "nil"
    /\ call'.id \in Live

\* what a Delete step leaves: the id gone, one Delete line more
DeleteEffect ==
    /\ call'.id \notin DOMAIN conversations'
    /\ \A order \in IterOrders(DOMAIN conversations') :
          \A i \in 1..Len(DoList(conversations', order)) :
              DoList(conversations', order)[i].ID # call'.id
    /\ ret'.appended
    /\ (ret'.compact = "none" /\ ~torn) =>
           index' = Append(index, Marshal(DeleteEvent(call'.id)))

\* C11 as amended: after a successful Delete of a present id the id is not in
\* List, one Delete event for it was appended, and Find(id) is decided by
\* the records that remain: ErrNoMatches only if none of them has the id as
\* prefix of its id or as title.
C11_DeleteRemoves ==
    [][/\ DeletesPresent => DeleteEffect
       /\ (DeleteSucceeded /\ call'.op = "Find" /\ call'.in = call.id) =>
              /\ \A i \in 1..Len(ret'.found) : ret'.found[i].ID # call.id
              /\ ret'.err = "ErrNoMatches" <=> Matching(call.id) = {}
              /\ Cardinality(Matching(call.id)) > 1 <=> ret'.err = "ErrManyMatches"]_vars

\* C11 as claimed: Find(id) returns ErrNoMatches after the Delete.
C11_FindNotFoundAfterDelete ==
    [][(DeleteSucceeded /\ call'.op = "Find" /\ call'.in = call.id) =>
           ret'.err = "ErrNoMatches"]_vars

\* IdA was deleted; the record left has IdA as its title
C11_Witness ==
    /\ DeleteSucceeded
    /\ call.id = IdA
    /\ IdA \notin Live
    /\ BulkId(0) \in Live
    /\ conversations[BulkId(0)].Title = IdA
    /\ index[Len(index)] = Marshal(DeleteEvent(IdA))

\* the step is a Delete of an id that is not in the map
DeletesAbsent(id) ==
    /\ call'.op = "Delete"
    /\ call'.id = id
    /\ steps' = steps + 1
    /\ id \notin Live

DeleteIsNoOp ==
    /\ ret'.err = "nil"
    /\ ~ret'.appended
    /\ ret'.compact = "none"
    /\ UNCHANGED <<conversations, ops, index, torn>>

\* C12 as amended: Delete of an id that is not blank (not empty once
\* trimmed) and not in the map returns nil, appends nothing, leaves map,
\* counter and log as they were and runs no compaction, due or not.
C12_DeleteAbsentNoOp ==
    [][\A id \in DeleteIds : (DeletesAbsent(id) /\ ~IsBlank(id)) => DeleteIsNoOp]_vars

\* C12 as claimed: any non-empty id.
C12_DeleteNonEmptyAbsent ==
    [][\A id \in DeleteIds : (DeletesAbsent(id) /\ id # <<>>) => DeleteIsNoOp]_vars

\* an absent id deleted while a compaction is due (one failed just before)
C12_Witness ==
    /\ call.op = "Delete"
    /\ call.id = IdA
    /\ IdA \notin Live
    /\ ret.err = "nil"
    /\ ~ret.appended
    /\ ops >= compactMinOps
    /\ ops >= compactScaleFactor * Cardinality(Live)

\* Open has just returned, and the file lock was not what failed
OpenReturned == call.op = "Open" /\ ret.err # "could not lock index file"

\* a line that is no JSON, an upsert without conversation or with an empty
\* id, a delete with an empty id, or an event of another op
BadLine(line) ==
    \/ line.kind = "garbage"
    \/ /\ line.kind = "json"
       /\ \/ line.evt.Op \notin {"upsert", "delete"}
          \/ line.evt.Op = "upsert" /\ line.evt.Conversation = <<>>
          \/ /\ line.evt.Op = "upsert"
             /\ line.evt.Conversation # <<>>
             /\ line.evt.Conversation[1].ID = <<>>
          \/ line.evt.Op = "delete" /\ line.evt.ID = <<>>

\* C13: Open gives no handle when the log has a bad line; blank lines are
\* skipped and not counted; an absent (or empty) log gives an empty store.
C13_OpenRejectsBadLog ==
    OpenReturned =>
        /\ (\E i \in 1..Len(index) : BadLine(index[i])) => (~opened /\ ret.err # "nil")
        /\ opened => ops = Cardinality({i \in 1..Len(index) : index[i].kind # "blank"})
        /\ index = <<>> => (opened /\ conversations = EmptyMap /\ ops = 0)

\* an Open that met an event of unknown op after a blank line
C13_Witness ==
    /\ call.op = "Open"
    /\ steps = 1
    /\ ~opened
    /\ ret.err = "invalid index event op"
    /\ index[1] = BlankLine

\* C14: every record of an open store has a non-empty id and a non-empty
\* title.
C14_RecordsHaveTitle ==
    opened => \A k \in Live : k # <<>> /\ conversations[k].Title # <<>>

\* the callers that are working on index.jsonl or index.jsonl.tmp
InFiles == {c \in Callers : pc[c] \in FileLocations}

\* C15: no two callers are inside a load, an append or a compaction at once,
\* and a caller inside one holds the file lock, from before its first step
\* on the files until after the last.
C15_OneInFiles ==
    /\ Cardinality(InFiles) <= 1
    /\ \A c \in InFiles : fileLock = {c}
    /\ \A c \in Callers \ InFiles : c \notin fileLock

\* a process renames the compacted log while a thread of the other waits
\* for the file lock and a second one for DB.mu
C15_Witness ==
    /\ pc[<<2, 1>>] = Loc("compact", "Rename")
    /\ pc[<<1, 1>>] = Loc("append", "Lock")
    /\ pc[<<1, 2>>] = Loc("mu", "Lock")

CacheCalls(op) == call'.op = op /\ steps' = steps + 1

\* C17: a Read that follows a successful Write(id, p) of the same id, and
\* meets no I/O failure itself, hands exactly p to readFn, whatever was
\* written or stored for the id before.
C17_ReadAfterWrite ==
    [][(/\ call.op = "Write"
        /\ ret.err = "nil"
        /\ CacheCalls("Read")
        /\ call'.id = call.id
        /\ call'.fail = "none") =>
           ret' = CacheRet("nil", <<call.payload>>)]_vars

\* the third call reads the zero-length payload of "ab" in the sharded
\* category, past an older file at the flat path
C17_Witness ==
    /\ steps = 3
    /\ call.op = "Read"
    /\ call.id = RaceId
    /\ ret = CacheRet("nil", << <<>> >>)
    /\ isSharded(cType)
    /\ Exists(files, legacyFilePath(RaceId))
    /\ files[legacyFilePath(RaceId)] = Previous

Complete(bytes) ==
    \/ bytes = Previous
    \/ \E w \in RaceWriters : wr[w].renamed /\ wr[w].payload = bytes

\* C19: the file at the id's path, the file a reader has opened and the
\* bytes a reader was given are always a complete payload; once all writers
\* are done no temporary file is left and the file is the payload of one of
\* those that succeeded.
C19_VisibleFileComplete ==
    /\ Exists(files, RacePath) => Complete(files[RacePath])
    /\ \A i \in 1..Len(rd.fh) : Complete(rd.fh[i])
    /\ \A i \in 1..Len(rd.got) : Complete(rd.got[i])
    /\ (\A w \in RaceWriters : wr[w].at = "done") =>
           /\ \A q \in DOMAIN files : q.kind # "tmp"
           /\ (\E w \in RaceWriters : wr[w].renamed) =>
                  \E w \in RaceWriters : wr[w].renamed /\ files[RacePath] = wr[w].payload

\* writer 2 has written half of its payload while the path holds the
\* payload of writer 1 and the reader still holds the file stored before
C19_Witness ==
    /\ wr[1].renamed
    /\ wr[2].at = "writeFn"
    /\ wr[2].n = 1
    /\ wr[1].payload # wr[2].payload
    /\ files[RacePath] = wr[1].payload
    /\ rd.fh = <<Previous>>

\* in the sharded category the file of id is at the flat path only
LegacyOnly(id) ==
    /\ isSharded(cType)
    /\ Exists(files, legacyFilePath(id))
    /\ ~Exists(files, filePath(cType, id))

\* C20: in the sharded category Read and Delete use the flat path when
\* there is no file at the sharded path, and the sharded path when there
\* is one.
C20_LegacyFallback ==
    [][/\ (CacheCalls("Read") /\ call'.fail = "none" /\ LegacyOnly(call'.id)) =>
              ret' = CacheRet("nil", <<files[legacyFilePath(call'.id)]>>)
       /\ (CacheCalls("Delete") /\ call'.fail = "none" /\ LegacyOnly(call'.id)) =>
              /\ ret'.err = "nil"
              /\ files' = RemoveFile(files, legacyFilePath(call'.id))
       /\ (/\ CacheCalls("Read")
           /\ call'.fail = "none"
           /\ call'.id # <<>>
           /\ Exists(files, filePath(cType, call'.id))) =>
              ret' = CacheRet("nil", <<files[filePath(cType, call'.id)]>>)
       /\ (/\ CacheCalls("Delete")
           /\ call'.fail = "none"
           /\ call'.id # <<>>
           /\ Exists(files, filePath(cType, call'.id))) =>
              /\ ret'.err = "nil"
              /\ files' = RemoveFile(files, filePath(cType, call'.id))]_vars

\* the first call reads "ab", stored at the flat path only
C20_Witness ==
    /\ steps = 1
    /\ call.op = "Read"
    /\ call.id = RaceId
    /\ ret = CacheRet("nil", <<Previous>>)
    /\ isSharded(cType)
    /\ Exists(files, legacyFilePath(RaceId))
    /\ ~Exists(files, filePath(cType, RaceId))

\* fs and gs hold the same file, or none, at path
SameAt(fs, gs, path) ==
    /\ Exists(fs, path) <=> Exists(gs, path)
    /\ Exists(fs, path) => fs[path] = gs[path]

\* C21: a successful Write(id, p) puts p at the sharded path when the
\* category is sharded and the id has at least as many bytes as the shard
\* prefix, and at the flat path otherwise; no other file changes.
C21_WriteLandsInLayout ==
    [][(CacheCalls("Write") /\ ret'.err = "nil") =>
           LET id == call'.id
               target == IF cType = ConversationCache /\ Len(id) >= shardPrefixLen
                         THEN Path(SubSeq(id, 1, shardPrefixLen), "json", id)
                         ELSE Path(<<>>, "json", id)
           IN /\ Exists(files', target)
              /\ files'[target] = call'.payload
              /\ \A q \in (DOMAIN files \cup DOMAIN files') \ {target} :
                     SameAt(files, files', q)]_vars

\* "ab" was written in the sharded category: the new payload is under the
\* directory "ab" and the older file at the flat path is as it was
C21_Witness ==
    /\ call.op = "Write"
    /\ call.id = RaceId
    /\ call.payload = <<3, 4>>
    /\ ret.err = "nil"
    /\ cType = ConversationCache
    /\ files = PutFile(PutFile(NoFiles, Path(<<>>, "json", RaceId), Previous),
                       Path(RaceId, "json", RaceId), <<3, 4>>)

\* C21 as stated: in the sharded category no successful Write of a
\* non-empty id creates or changes the file at the flat path
C21_NeverWritesFlat ==
    [][(CacheCalls("Write") /\ ret'.err = "nil" /\ cType = ConversationCache) =>
           SameAt(files, files', Path(<<>>, "json", call'.id))]_vars

\* C22: Delete(id) returns nil exactly when it removed one file: the one at
\* the current path if there is one, else, in the sharded category, the one
\* at the flat path; it returns an error and removes nothing when there is
\* neither and when the removal fails.
C22_DeleteOutcome ==
    [][CacheCalls("Delete") =>
           LET id == call'.id
               current == filePath(cType, id)
               legacy == legacyFilePath(id)
               victim == IF Exists(files, current) THEN <<current>>
                         ELSE IF isSharded(cType) /\ Exists(files, legacy) THEN <<legacy>>
                         ELSE <<>>
           IN IF id # <<>> /\ call'.fail = "none" /\ victim # <<>>
              THEN ret'.err = "nil" /\ files' = RemoveFile(files, victim[1])
              ELSE ret'.err # "nil" /\ files' = files]_vars

\* "ab" has no file at either path of the sharded category: Delete fails
C22_Witness ==
    /\ call.op = "Delete"
    /\ call.id = RaceId
    /\ call.fail = "none"
    /\ ret.err = "not exist"
    /\ cType = ConversationCache
    /\ ~Exists(files, filePath(cType, RaceId))
    /\ ~Exists(files, legacyFilePath(RaceId))

\* the step is a call `op` of the commands
FacadeCalls(op) == call'.op = op /\ steps' = steps + 1

\* the errors DB.Save returns
SaveErrors ==
    {"empty id", "empty title", "lock index", "open index", "write index event",
     "sync index", "compact"}

\* C23: saveConversation calls Cache.Write first and DB.Save second; it
\* does not call DB.Save when the write failed, and when DB.Save fails it
\* calls Cache.Delete of the id and returns the error of DB.Save whatever
\* the delete returned.
C23_PayloadThenRecord ==
    [][FacadeCalls("saveConversation") =>
           LET cfg == call'.cfg
               path == filePath(ConversationCache, cfg.id)
               writeFails == cfg.id = <<>> \/ call'.fail # "none"
               saveFails == \/ call'.io # "ok"
                            \/ TrimSpace(cfg.id) = <<>>
                            \/ TrimSpace(SaveTitle(cfg)) = <<>>
           IN IF cfg.noCache
                  THEN ret'.trace = <<>> /\ ret'.err = "nil" /\ files' = files /\ index' = index
              ELSE IF writeFails
                  THEN /\ ret'.trace = <<"Cache.Write">>
                       /\ ret'.err \notin ({"nil"} \cup SaveErrors)
                       /\ files' = files
                       /\ index' = index /\ conversations' = conversations /\ ops' = ops
              ELSE IF saveFails
                  THEN /\ ret'.trace = <<"Cache.Write", "DB.Save", "Cache.Delete">>
                       /\ ret'.err \in SaveErrors
                       /\ IF call'.dfail = "none" THEN ~Exists(files', path)
                          ELSE Exists(files', path) /\ files'[path] = call'.payload
              ELSE /\ ret'.trace = <<"Cache.Write", "DB.Save">>
                   /\ ret'.err \in {"nil", "panic"}
                   /\ Exists(files', path) /\ files'[path] = call'.payload
                   /\ cfg.id \in DOMAIN conversations'
                   /\ Len(index') = Len(index) + 1]_vars

\* the record of IdA and its payload were there; the payload was replaced,
\* the fsync of the log failed, and the payload is gone
C23_Witness ==
    /\ steps = 1
    /\ call.op = "saveConversation"
    /\ call.cfg.id = IdA
    /\ call.dfail = "none"
    /\ ret = [err |-> "sync index", trace |-> <<"Cache.Write", "DB.Save", "Cache.Delete">>]
    /\ IdA \in DOMAIN conversations
    /\ files = NoFiles

\* C24: deleteConversationByID returns nil whenever no step on the files
\* fails, whether or not the record and the payload of the id were there.
C24_DeleteTolerates ==
    [][(/\ FacadeCalls("deleteConversationByID")
        /\ call'.io = "ok"
        /\ call'.dfail = "none"
        /\ Len(call'.cfg.id) >= SHA1MinLen) =>
           ret'.err = "nil"]_vars

Range(seq) == {seq[i] : i \in 1..Len(seq)}

\* C25: Completions(in) returns, sorted and without duplicates, the string
\* "id<TAB>title" of each record whose id starts with in, the id cut to 7
\* bytes when in is shorter than 7 bytes and the id longer, and the string
\* "title<TAB>id" of each record whose title starts with in, the id cut to
\* 7 bytes whenever it is longer.
C25_CompletionStrings ==
    [][(call'.op = "Completions" /\ steps' = steps + 1) =>
           LET in == call'.in
               short(id) == SubSeq(id, 1, 7)
               byID == {c \in Records : HasPrefix(c.ID, in)}
               byTitle == {c \in Records : HasPrefix(c.Title, in)}
           IN /\ Range(ret'.list) =
                     {(IF Len(in) < 7 /\ Len(c.ID) > 7 THEN short(c.ID) ELSE c.ID)
                          \o <<9>> \o c.Title : c \in byID}
                     \cup {c.Title \o <<9>>
                               \o (IF Len(c.ID) > 7 THEN short(c.ID) ELSE c.ID) : c \in byTitle}
              /\ \A i, j \in 1..Len(ret'.list) :
                     i < j => StrLess(ret'.list[i], ret'.list[j])]_vars

\* Completions("éé11a") where "éé11ac" is an id and a title: the id form has
\* the whole id, the title form the id of that record cut to 7 bytes
C25_Witness ==
    /\ call.op = "Completions"
    /\ call.in = IdA
    /\ Len(ret.list) = 2
    /\ ret.list[1] = IdLong \o <<9>> \o <<97, 97, 97, 97, 97, 97, 195>>
    /\ ret.list[2] = IdLong \o <<9>> \o TitleBulk

\* C25 as stated: in the title form too the id is cut to 7 characters
\* exactly when the query has fewer than 7 characters and the id more
C25_ShortenedAlike ==
    [][(call'.op = "Completions" /\ steps' = steps + 1) =>
           \A c \in Records :
               HasPrefix(c.Title, call'.in) =>
                   (c.Title \o <<9>>
                        \o (IF RuneCount(call'.in) < 7 /\ RuneCount(c.ID) > 7
                            THEN SubSeq(c.ID, 1, 7) ELSE c.ID)) \in Range(ret'.list)]_vars

\* the strings of list that stand for the record c in the answer to `in`
RepresentedIn(c, in, list) ==
    \/ ((IF Len(in) < 7 /\ Len(c.ID) > 7 THEN SubSeq(c.ID, 1, 7) ELSE c.ID)
            \o <<9>> \o c.Title) \in Range(list)
    \/ (c.Title \o <<9>> \o (IF Len(c.ID) > 7 THEN SubSeq(c.ID, 1, 7) ELSE c.ID))
           \in Range(list)

\* C26: Completions("") has the id string and the title string of every
\* live record, and a Completions(q) that follows a Completions(p), p a
\* prefix of q, represents no record that the first answer did not.
C26_CompletionsMonotone ==
    [][(call'.op = "Completions" /\ steps' = steps + 1) =>
           /\ call'.in = <<>> =>
                  \A c \in Records :
                      /\ ((IF Len(c.ID) > 7 THEN SubSeq(c.ID, 1, 7) ELSE c.ID)
                              \o <<9>> \o c.Title) \in Range(ret'.list)
                      /\ (c.Title \o <<9>> \o (IF Len(c.ID) > 7 THEN SubSeq(c.ID, 1, 7)
                                               ELSE c.ID)) \in Range(ret'.list)
           /\ (call.op = "Completions" /\ HasPrefix(call'.in, call.in)) =>
                  \A c \in Records :
                      RepresentedIn(c, call'.in, ret'.list) =>
                          RepresentedIn(c, call.in, ret.list)]_vars

\* the second call is Completions of the 8 bytes of an id, in a store of
\* two records, and has the one string of that id
C26_Witness ==
    /\ steps = 2
    /\ call.op = "Completions"
    /\ call.in = IdLong
    /\ Cardinality(Live) = 2
    /\ ret.list = <<IdLong \o <<9>> \o TitleShared>>

\* the step is a call of planConversation
Plans == call'.op = "planConversation" /\ steps' = steps + 1

\* the records DB.Find(in) matches
Hits(in) == {c \in Records : FindHit(c, in)}

\* c is the record List puts first
Latest(c) ==
    \A d \in Records :
        \/ d.UpdatedAt < c.UpdatedAt
        \/ d.UpdatedAt = c.UpdatedAt /\ (d.ID = c.ID \/ StrLess(c.ID, d.ID))

\* C27: a plan made to continue a conversation without a new title has
\* ReadID = WriteID = the id of the record Find resolved, or of the latest
\* record when Find matched nothing; the save of that run leaves the set
\* of records as it was and writes that record.
C27_ContinueWritesSameRecord ==
    [][/\ (/\ Plans
           /\ call'.cfg.Title = <<>>
           /\ call'.cfg.Continue # <<>> \/ call'.cfg.ContinueLast
           /\ ret'.err = "nil") =>
              LET in == First(call'.cfg.Continue, call'.cfg.Show)
                  plan == ret'.plan
              IN /\ plan.WriteID = plan.ReadID
                 /\ plan.ReadID \in Live
                 /\ IF Hits(in) # {} THEN Hits(in) = {conversations[plan.ReadID]}
                    ELSE Latest(conversations[plan.ReadID])
       /\ (/\ call'.op = "saveConversation"
           /\ steps' = steps + 1
           /\ call'.cfg.Title = <<>>
           /\ call'.cfg.Continue # <<>> \/ call'.cfg.ContinueLast
           /\ ret'.err = "nil") =>
              /\ DOMAIN conversations' = Live
              /\ conversations'[call'.plan.ReadID].UpdatedAt = MaxTime
              /\ \A k \in Live \ {call'.plan.ReadID} : conversations'[k] = conversations[k]]_vars

\* the run continued the record titled "t1", the older of two, and saved
C27_Witness ==
    /\ steps = 2
    /\ call.op = "saveConversation"
    /\ call.cfg.Continue = TitleOne
    /\ call.plan.ReadID = HexA
    /\ call.plan.WriteID = HexA
    /\ ret.err = "nil"
    /\ Live = {HexA, HexB}
    /\ conversations[HexA].UpdatedAt = MaxTime

\* C28: the lookup of the record to read returns the one record Find
\* matches; with several matches it is an error; with none it is an error
\* when a Show query was given and the latest record otherwise (an error
\* when there is no record); every error has the reason "Could not find the
\* conversation."
C28_FallbackOnlyOnNoMatch ==
    [][(/\ Plans
        /\ \/ First(call'.cfg.Continue, call'.cfg.Show) # <<>>
           \/ call'.cfg.ContinueLast
           \/ call'.cfg.Continue # <<>> /\ call'.cfg.Title = <<>>
           \/ call'.cfg.ShowLast) =>
           LET in == First(call'.cfg.Continue, call'.cfg.Show)
               n == Cardinality(Hits(in))
           IN IF n = 1
                  THEN /\ ret'.err = "nil"
                       /\ ret'.via = "Find"
                       /\ Hits(in) = {conversations[ret'.plan.ReadID]}
              ELSE IF n = 0 /\ call'.cfg.Show = <<>> /\ Records # {}
                  THEN /\ ret'.err = "nil"
                       /\ ret'.via = "FindHEAD"
                       /\ Latest(conversations[ret'.plan.ReadID])
              ELSE /\ ret'.err = "Could not find the conversation."
                   /\ ret'.via = IF n = 0 /\ call'.cfg.Show = <<>> THEN "FindHEAD" ELSE "Find"]_vars

\* Show names no record of a store that has two: an error
C28_Witness ==
    /\ call.op = "planConversation"
    /\ call.cfg.Show = NoSuch
    /\ call.cfg.Continue = <<>>
    /\ ret.err = "Could not find the conversation."
    /\ ret.via = "Find"
    /\ Cardinality(Live) = 2

\* a step in which Update handled the key `key`
KeyStep(key) == program'.keys = program.keys + 1 /\ program'.last = key

\* C29: in interactive chat, ctrl+c handled while the model is in the stream
\* state closes the stream and the cancel function the model holds, finishes
\* the turn (the streamed text goes to the history buffer, the history is
\* saved once), leaves the model in the input state and does not quit;
\* ctrl+c handled in the input state quits and changes nothing else
C29_CtrlCInterrupts ==
    [][KeyStep("ctrl+c") =>
          IF chat.state = chatStreamState
              THEN /\ chat'.state = chatInputState
                   /\ ~program'.quit
                   /\ ~chat'.Error
                   /\ chat'.activeStream = 0 /\ chat'.activeCancel = 0
                   /\ program'.cancelled =
                          program.cancelled \cup ({chat.activeStream, chat.activeCancel} \ {0})
                   /\ chat'.streamBuf = 0
                   /\ chat'.historyBuf = IF chat.streamBuf > 0
                                             THEN Append(chat.historyBuf, "response")
                                         ELSE chat.historyBuf
                   /\ chat'.saved = chat.saved + 1
                   /\ program'.inflight = program.inflight
          ELSE program'.quit /\ chat' = chat]_vars

\* ctrl+c has just interrupted a response of which text had arrived: the
\* stream is cancelled, the text is in the history, the program runs on
C29_Witness ==
    /\ program.last = "ctrl+c"
    /\ ~program.quit
    /\ chat.state = chatInputState
    /\ program.cancelled = {1}
    /\ chat.historyBuf = <<"prompt", "response">>
    /\ chat.saved = 1

\* what a fresh Open on the log `lines` holds for id: <<record>> or <<>>
Opens(lines, id) ==
    LET m == Load(lines).conversations IN
    IF id \in DOMAIN m THEN <<m[id]>> ELSE <<>>

\* C30: with two processes on one store directory, after every successful
\* Save or Delete of either process a fresh Open holds, for the id of an
\* event the call appended, the state that event gives (the record saved,
\* or nothing after a delete) and, for every other id, what a fresh Open
\* held before the call: no event that either process appended is lost
C30_PeersKeepEvents ==
    [][(steps' = steps + 1 /\ ret'.err = "nil") =>
          \A id \in {r.id : r \in PeerRequests} :
              Opens(index', id) =
                  IF ret'.appended /\ id = call'.id
                      THEN IF call'.op \in {"Save", "PeerSave"}
                               THEN <<NewConversation(call'.id, call'.title, call'.now,
                                                      call'.api, call'.model)>>
                           ELSE <<>>
                  ELSE Opens(index, id)]_vars

\* C31: whenever Delete(id) returns nil, replaying the log gives no record
\* for id, also when an earlier Delete(id) of the handle failed at its append
\* and the call is the retry
C31_DeleteReachesLog ==
    [][(call'.op = "Delete" /\ steps' = steps + 1 /\ ret'.err = "nil") =>
          Opens(index', call'.id) = <<>>]_vars

\* C32: after any sequence of saveConversation and deleteConversationByID on
\* one store, failed saves included, every record a fresh Open finds in the
\* index has a payload that Read can open
C32_IndexedHavePayload ==
    \A id \in DOMAIN Load(index).conversations :
        Load(index).err = "nil" => CacheRead(files, cType, id, "none").err = "nil"

\* the errors of a Save or Delete stopped inside appendEventLocked
AppendErrors == {"lock index", "open index", "write index event", "sync index"}

\* C33: an Open that follows a Save or Delete stopped at any point of its
\* append, also after part of the line was written, succeeds, and what it
\* loads differs from the map of the stopped call at most in the id of
\* that call (the state before or after the call)
C33_OpensAfterInterruptedAppend ==
    [][(/\ call.op \in {"Save", "Delete"}
        /\ ret.err \in AppendErrors
        /\ call'.op = "Open"
        /\ steps' = steps + 1
        /\ ret'.err # "could not lock index file") =>
          /\ ret'.err = "nil"
          /\ opened'
          /\ \A id \in ((DOMAIN conversations) \cup (DOMAIN conversations')) \ {call.id} :
                /\ id \in DOMAIN conversations
                /\ id \in DOMAIN conversations'
                /\ conversations'[id] = conversations[id]]_vars

\* a compaction has been started and the directory is as it left it
Compacting == compaction.at # "idle"

\* the live log holds exactly the log from before the compaction or exactly
\* the compacted log
C34_LogWhole == Compacting => index \in {compaction.pre, CompactedLines(compaction.items)}

\* C34: at every step of a compaction, failed and interrupted ones included,
\* index.jsonl is the whole log from before the compaction or the whole
\* compacted log, the two replay to the same map, and Open reads index.jsonl
\* only, never index.jsonl.tmp
C34_CompactionAtomic ==
    /\ C34_LogWhole
    /\ Compacting =>
          /\ Load(CompactedLines(compaction.items)).err = "nil"
          /\ Load(compaction.pre).err = "nil"
          /\ Load(CompactedLines(compaction.items)).conversations
                 = Load(compaction.pre).conversations
    /\ (opened /\ call.op = "Open" /\ ret.err = "nil") =>
          conversations = Load(index).conversations

\* a compaction stopped after writing part of index.jsonl.tmp
C34_Witness ==
    /\ compaction.at \in {"failed", "crashed"}
    /\ compaction.tmp.exists
    /\ compaction.tmp.lines # <<>>
    /\ compaction.tmp.lines # CompactedLines(compaction.items)
    /\ index = compaction.pre

\* the change of the last call is in the map m
ChangeIn(m) ==
    IF call.op = "Save"
        THEN /\ call.id \in DOMAIN m
             /\ m[call.id] = NewConversation(call.id, call.title, call.now, call.api, call.model)
    ELSE call.id \notin DOMAIN m

\* a Save or Delete has returned after its compaction failed
CompactionFailed == opened /\ call.op \in {"Save", "Delete"} /\ ret.compact = "failed"

CompactErrors == {CompactError(CompactOps[i]) : i \in 1..Len(CompactOps)}

\* C35 as stated: after a failed compaction the call has returned an error,
\* the map holds its change and the state replayed from the log does not
C35_MemoryAhead ==
    CompactionFailed =>
        /\ ret.err \in CompactErrors
        /\ ChangeIn(conversations)
        /\ ~(Load(index).err = "nil" /\ ChangeIn(Load(index).conversations))

\* C35: after a failed compaction the call has returned the error of the
\* failed step and the map holds its change; the event was appended before
\* the compaction began, so the log is the log as the append left it and
\* the state replayed from it, whenever it loads, holds the change as well
C35_FailedCompactionKeepsEvent ==
    CompactionFailed =>
        /\ ret.err \in CompactErrors
        /\ ChangeIn(conversations)
        /\ index = compaction.pre
        /\ Load(index).err = "nil" => ChangeIn(Load(index).conversations)

\* a Delete has returned the error of a failed rename; the log loads
C35_Witness ==
    /\ CompactionFailed
    /\ call.op = "Delete"
    /\ ret.err = "replace index with compacted version"
    /\ Load(index).err = "nil"
    /\ call.id \notin DOMAIN Load(index).conversations

\* the event lines of a log: the lines that are not blank
EventLines(lines) == Cardinality({i \in 1..Len(lines) : lines[i].kind # "blank"})

\* C36: in one process, as long as no I/O has failed, the counter of an open
\* handle is the number of event lines in index.jsonl after every call:
\* after Open, after an append, after a Delete of an absent id and after a
\* compaction, which leaves one line for each live record
C36_CounterIsEventLines ==
    /\ (opened /\ ~ioFailed) => ops = EventLines(index)
    /\ (opened /\ ~ioFailed /\ ret.compact = "done") =>
           /\ ops = Cardinality(DOMAIN conversations)
           /\ Len(index) = ops

\* a call has compacted a log of 256 events and more to its live records
C36_Witness ==
    /\ opened
    /\ ~ioFailed
    /\ ret.compact = "done"
    /\ ops = EventLines(index)
    /\ ops < compactMinOps

\* the step is the append of the event of thread c
AppendsFor(c) ==
    /\ pc[c] = Loc("append", "")
    /\ index' = Append(index, Marshal(EventOf(cop[c])))

\* events reach the log in the order in which the map was changed: only the
\* one thread that holds c.mu is between its change of the map and its
\* return, each change of the map is its own, and each line added to the
\* log is the event of its change
C37_LogOrderIsMapOrder ==
    /\ [][\A c, d \in Threads : (Holding(c) /\ Holding(d)) => c = d]_vars
    /\ [][conversations' # conversations =>
             \E c \in Threads : pc[c] = Loc("map", "") /\ pc'[c] = Loc("append", "")]_vars
    /\ [][index' # index =>
             \E c \in Threads : AppendsFor(c) \/ pc[c] = Loc("compactIfNeeded", "")]_vars

\* C37: with several threads calling Save and Delete on one handle, only
\* one of them at a time is between its change of the map and its return,
\* and whenever none is, the log replays to the map
C37_ThreadsLogReplaysToMap ==
    /\ \A c, d \in Threads : (Holding(c) /\ Holding(d)) => c = d
    /\ (\A c \in Threads : ~Holding(c)) =>
           /\ Load(index).err = "nil"
           /\ Load(index).conversations = conversations

\* C38: after a Delete(id) that returned nil, a Read(id) finds no file,
\* whichever of the two paths held the payload, both included
C38_ReadFailsAfterDelete ==
    [][(CacheCalls("Delete") /\ ret'.err = "nil") =>
           CacheRead(files', cType, call'.id, "none").err = "open"]_vars

\* a Delete(id) returned nil with no more than one file of the id in place
C38_OneFileDeleted ==
    [][(/\ CacheCalls("Delete")
        /\ ret'.err = "nil"
        /\ ~(Exists(files, filePath(cType, call'.id))
               /\ Exists(files, legacyFilePath(call'.id))
               /\ filePath(cType, call'.id) # legacyFilePath(call'.id))) =>
           CacheRead(files', cType, call'.id, "none").err = "open"]_vars

\* C39: the chat resubmits a prompt on its own fewer than MaxRetries times
C39_RetriesBounded == program.resubmitted < MaxRetries

\* a retry puts the counter back: the chatSubmitMsg that handleStreamError
\* returned is handled with the counter at 1 and leaves it at 0
C39_ResetSeen ==
    /\ program.last = "chatSubmitMsg"
    /\ program.resubmitted > 0
    /\ chat.retries = 0

\* the larger of two numbers
Larger(a, b) == IF a >= b THEN a ELSE b

\* the step is a run of receiveCompletionStreamCmd that met a stream error
\* for which a retry was decided
RetryDecided ==
    /\ yai.inflight.kind = "receiveCompletionStreamCmd"
    /\ yai'.retries # yai.retries

\* C40: in one-shot mode the retry counter only ever goes up by one, with
\* each retry decided for a stream error; when that brings it to MaxRetries
\* the error is returned in place of a new completionInput, and Update puts
\* the error into the model, enters the error state and quits; no run
\* starts more than max(1, MaxRetries) requests, and a run whose counter
\* has reached MaxRetries ends
C40_RetriesBounded ==
    /\ [][yai'.retries \in {yai.retries, yai.retries + 1}]_vars
    /\ [][RetryDecided =>
              yai'.inflight.kind = IF yai'.retries >= yai.MaxRetries THEN "errs.Error"
                                   ELSE "completionInput"]_vars
    /\ [][(yai'.requests # yai.requests) =>
              /\ yai'.requests = yai.requests + 1
              /\ yai.requests = yai.retries
              /\ yai.requests = 0 \/ yai.retries < yai.MaxRetries]_vars
    /\ [][(~yai.quit /\ yai.inflight.kind = "errs.Error" /\ yai'.inflight.kind = "none") =>
              yai'.Error /\ yai'.state = "errorState" /\ yai'.quitting]_vars
    /\ [](yai.requests <= Larger(1, yai.MaxRetries))
    /\ (yai.retries > 0 /\ yai.retries >= yai.MaxRetries) ~> yai.quit

\* MaxRetries is 2, two requests were sent, both streams failed with an
\* error to retry, and the program has quit in the error state
C40_Witness ==
    /\ yai.MaxRetries = MaxRetries
    /\ yai.requests = MaxRetries
    /\ yai.retries = MaxRetries
    /\ yai.state = "errorState"
    /\ yai.Error
    /\ yai.quit

====
